---- MODULE Spec2Model ----
(***************************************************************************)
(* A model of the policy-driven request router of ss_buddy                 *)
(* (src/nvidia_router_core.py): NVIDIALLMRouterCore.route_request and the   *)
(* helpers it calls, as a state machine over one request at a time.         *)
(*                                                                         *)
(* Python values are represented as follows.                               *)
(*   - a str that the code trims or compares character-wise (policy and    *)
(*     backend names) is a sequence of one-character strings;              *)
(*   - a dict is a function whose DOMAIN is the set of keys present;       *)
(*   - None is NoneVal; an unassigned local is Unset (or -1 for an index); *)
(*   - opaque strings (urls, credentials, model ids, bodies) are strings.  *)
(***************************************************************************)
EXTENDS Integers, Sequences, FiniteSets, TLC

(***************************************************************************)
(* Bounds of the model.                                                    *)
(***************************************************************************)
\* longest classifier output vector the classification service answers with
MaxVecLen == 3
\* classifier scores are drawn from 0..MaxScore
MaxScore == 1
\* the policies of a configuration file
MaxPolicies == 2

(***************************************************************************)
(* Python values.                                                          *)
(***************************************************************************)
\* None where a str is expected, None where an object is expected
NoneVal == <<"<None>">>
NoneRec == [none |-> TRUE]
\* a local that has not been assigned yet
Unset == [unset |-> TRUE]
UnsetStr == <<"<unset>">>
EmptyDict == [k \in {} |-> TRUE]
EmptyStr == <<>>

Has(d, k) == k \in DOMAIN d

\* dict.get(k) / dict.get(k, default)
Get(d, k, default) == IF Has(d, k) THEN d[k] ELSE default

\* str.strip(): drop leading and trailing whitespace
RECURSIVE LStrip(_)
LStrip(s) == IF s # <<>> /\ Head(s) = " " THEN LStrip(Tail(s)) ELSE s

RECURSIVE RStrip(_)
RStrip(s) ==
    IF s # <<>> /\ s[Len(s)] = " " THEN RStrip(SubSeq(s, 1, Len(s) - 1)) ELSE s

Strip(s) == RStrip(LStrip(s))

\* max(list) of a non-empty list
RECURSIVE ListMax(_)
ListMax(l) ==
    IF Len(l) = 1 THEN l[1]
    ELSE LET m == ListMax(Tail(l)) IN IF m > Head(l) THEN m ELSE Head(l)

\* list.index(x): the 0-based position of the first element equal to x
RECURSIVE IndexFrom(_, _, _)
IndexFrom(l, x, i) ==
    IF l[i + 1] = x THEN i ELSE IndexFrom(l, x, i + 1)

ListIndex(l, x) == IndexFrom(l, x, 0)

(***************************************************************************)
(* The registry: Llm, Policy, RouterConfig.                                *)
(***************************************************************************)
Llm(name, api_base, api_key, model) ==
    [name |-> name, api_base |-> api_base, api_key |-> api_key, model |-> model]

Policy(name, url, llms) == [name |-> name, url |-> url, llms |-> llms]

\* A registry of the shape of _create_default_config: two policies, each an
\* ordered list of named backends; several backends share a model id, and
\* the two policies list the same names in different positions.
DefaultConfig ==
    [policies |-> <<
        Policy(<<"p">>, "http://router-server/p/infer",
               << Llm(<<"A">>, "https://api-a", "key-a", "llama-70b"),
                  Llm(<<"B">>, "https://api-b", "key-b", "llama-8b"),
                  Llm(<<"C">>, "https://api-c", "key-c", "llama-70b") >>),
        Policy(<<"q">>, "http://router-server/q/infer",
               << Llm(<<"B">>, "https://api-qb", "key-qb", "nemotron-49b"),
                  Llm(<<"A">>, "https://api-qa", "key-qa", "llama-8b") >>) >>]

\* Policy.get_llm_by_name
RECURSIVE LlmByNameFrom(_, _, _)
LlmByNameFrom(llms, name, i) ==
    IF i > Len(llms) THEN NoneRec
    ELSE IF Strip(llms[i].name) = Strip(name) THEN llms[i]
    ELSE LlmByNameFrom(llms, name, i + 1)

get_llm_by_name(policy, name) == LlmByNameFrom(policy.llms, name, 1)

\* mutant: an index beyond the list falls back to the last backend
get_llm_by_index_or_last(policy, index) ==
    IF 0 <= index /\ index < Len(policy.llms)
    THEN policy.llms[index + 1]
    ELSE IF policy.llms # <<>> THEN policy.llms[Len(policy.llms)] ELSE NoneRec

\* Policy.get_llm_by_index (index is 0-based)
get_llm_by_index(policy, index) ==
    IF 0 <= index /\ index < Len(policy.llms)
    THEN policy.llms[index + 1] ELSE NoneRec

\* mutant: the label is read one position further
get_llm_name_by_next_index(policy, index) ==
    LET llm == get_llm_by_index(policy, index + 1)
    IN IF llm # NoneRec THEN llm.name ELSE NoneVal

\* Policy.get_llm_name_by_index
get_llm_name_by_index(policy, index) ==
    LET llm == get_llm_by_index(policy, index)
    IN IF llm # NoneRec THEN llm.name ELSE NoneVal

\* RouterConfig.get_policy_by_name
RECURSIVE PolicyByNameFrom(_, _, _)
PolicyByNameFrom(policies, name, i) ==
    IF i > Len(policies) THEN NoneRec
    ELSE IF Strip(policies[i].name) = Strip(name) THEN policies[i]
    ELSE PolicyByNameFrom(policies, name, i + 1)

\* mutant: an unknown name falls back to the first policy
get_policy_by_name_or_first(cfg, name) ==
    LET found == PolicyByNameFrom(cfg.policies, name, 1)
    IN IF found = NoneRec THEN cfg.policies[1] ELSE found

get_policy_by_name(cfg, name) == PolicyByNameFrom(cfg.policies, name, 1)

(***************************************************************************)
(* RouterConfig.load_config: the parsed YAML is a dict with 'policies', a  *)
(* list of dicts with 'name', 'url' and 'llms'; a missing key raises       *)
(* KeyError at the first place it is read.                                 *)
(***************************************************************************)
Loaded(value) == [ok |-> TRUE, value |-> value, key |-> ""]
KeyError(key) == [ok |-> FALSE, value |-> NoneRec, key |-> key]

\* Llm(name=llm_data['name'], api_base=..., api_key=..., model=...)
LoadLlm(llm_data) ==
    IF ~Has(llm_data, "name") THEN KeyError("name")
    ELSE IF ~Has(llm_data, "api_base") THEN KeyError("api_base")
    ELSE IF ~Has(llm_data, "api_key") THEN KeyError("api_key")
    ELSE IF ~Has(llm_data, "model") THEN KeyError("model")
    ELSE Loaded(Llm(llm_data["name"], llm_data["api_base"],
                    llm_data["api_key"], llm_data["model"]))

\* for llm_data in policy_data['llms']: llms.append(Llm(...))
RECURSIVE LoadLlms(_, _)
LoadLlms(llm_datas, llms) ==
    IF llm_datas = <<>> THEN Loaded(llms)
    ELSE LET llm == LoadLlm(Head(llm_datas))
         IN IF llm.ok THEN LoadLlms(Tail(llm_datas), Append(llms, llm.value))
            ELSE llm

\* the body of the loop over config_data['policies']
LoadPolicy(policy_data) ==
    IF ~Has(policy_data, "llms") THEN KeyError("llms")
    ELSE LET llms == LoadLlms(policy_data["llms"], <<>>)
         IN IF ~llms.ok THEN llms
            ELSE IF ~Has(policy_data, "name") THEN KeyError("name")
            ELSE IF ~Has(policy_data, "url") THEN KeyError("url")
            ELSE Loaded(Policy(policy_data["name"], policy_data["url"], llms.value))

\* for policy_data in config_data['policies']: policies.append(Policy(...))
RECURSIVE LoadPolicies(_, _)
LoadPolicies(policy_datas, policies) ==
    IF policy_datas = <<>> THEN Loaded([policies |-> policies])
    ELSE LET policy == LoadPolicy(Head(policy_datas))
         IN IF policy.ok
            THEN LoadPolicies(Tail(policy_datas), Append(policies, policy.value))
            ELSE policy

load_config(config_data) ==
    IF ~Has(config_data, "policies") THEN KeyError("policies")
    ELSE LoadPolicies(config_data["policies"], <<>>)

(***************************************************************************)
(* Requests a caller can submit.                                           *)
(***************************************************************************)
NimKey == "nim-llm-router"

\* the dicts {} and {key: v} for v in vals
Opt(key, vals) == {EmptyDict} \cup {key :> v : v \in vals}

PolicyInputs == {EmptyStr, <<"p">>, <<"q">>, <<" ", "p", " ">>, <<"z">>}
StrategyInputs == {"manual", "triton", "auto"}
ModelInputs == {EmptyStr, <<"A">>, <<"B">>, <<" ", "B">>, <<"Z">>}
ThresholdInputs == {9}

NimInputs ==
    {EmptyDict} \cup
    { p @@ s @@ m @@ t :
        p \in Opt("policy", PolicyInputs),
        s \in Opt("routing_strategy", StrategyInputs),
        m \in Opt("model", ModelInputs),
        t \in Opt("threshold", ThresholdInputs) }

User == <<"u", "s", "e", "r">>
Msg1 == [role |-> User, content |-> <<"h", "i">>]
Msg2 == [role |-> User, content |-> <<"w", "h", "y", "?">>]
MsgNoContent == [role |-> User]
MessagesInputs == {<<Msg1, Msg2>>, <<Msg1, MsgNoContent>>}

RequestInputs ==
    { n @@ m @@ g @@ k :
        n \in Opt(NimKey, NimInputs),
        m \in Opt("model", {"gpt-4"}),
        g \in Opt("messages", MessagesInputs),
        k \in Opt("max_tokens", {64}) }

\* Shorten to max 2000 characters: the limit
MaxTextLen == 2000

\* a text of n characters: a, then x's, then z
LongText(n) == [i \in 1..n |-> IF i = 1 THEN "a" ELSE IF i = n THEN "z" ELSE "x"]

MsgOf(content) == [role |-> User, content |-> content]

\* conversations whose serialisation is just below, at and above 2000
\* characters, and last messages that are themselves longer than that
TextMessagesInputs ==
    {<<MsgOf(LongText(n))>> :
        n \in {MaxTextLen - 34, MaxTextLen - 33, MaxTextLen - 32, MaxTextLen + 1}}
    \cup {<<Msg1, MsgOf(LongText(MaxTextLen + 1))>>,
          <<MsgOf(LongText(MaxTextLen + 1)), Msg2>>}

TextNimInputs ==
    {("policy" :> <<"p">>) @@ ("routing_strategy" :> "triton"),
     ("policy" :> <<"p">>) @@ ("routing_strategy" :> "manual") @@ ("model" :> <<"A">>),
     ("policy" :> <<"p">>) @@ ("routing_strategy" :> "auto")}

TextRequestInputs ==
    { (NimKey :> n) @@ ("messages" :> g) :
        n \in TextNimInputs, g \in TextMessagesInputs }

\* thresholds (in tenths) on both sides of every score
PairThresholdInputs == {2, 15}

PairNimInputs ==
    { p @@ s @@ m @@ t :
        p \in {"policy" :> <<"p">>},
        s \in {"routing_strategy" :> x : x \in StrategyInputs},
        m \in {"model" :> <<"B">>},
        t \in Opt("threshold", PairThresholdInputs) }

PairRequestInputs ==
    { (NimKey :> n) @@ ("messages" :> <<Msg1, Msg2>>) : n \in PairNimInputs }

\* requests for a registry loaded from a file
LoadRequestInputs ==
    { (NimKey :> (("policy" :> <<"p">>) @@ s @@ ("model" :> <<"B">>)))
        @@ ("messages" :> <<Msg1, Msg2>>) :
        s \in {"routing_strategy" :> x : x \in StrategyInputs} }

\* the requests the callers of a workload submit
Requests(load) ==
    IF load = "text" THEN TextRequestInputs
    ELSE IF load = "pair" THEN PairRequestInputs
    ELSE IF load \in {"load", "edu", "two"} THEN LoadRequestInputs
    ELSE RequestInputs

\* a request without the threshold of its routing block
WithoutThreshold(req) ==
    IF Has(req, NimKey)
    THEN [req EXCEPT ![NimKey] =
            [k \in DOMAIN req[NimKey] \ {"threshold"} |-> req[NimKey][k]]]
    ELSE req

\* two requests that differ in the value or presence of the threshold only
SameButThreshold(a, b) ==
    a # b /\ WithoutThreshold(a) = WithoutThreshold(b)

(***************************************************************************)
(* What the two network services can answer.                               *)
(***************************************************************************)
\* mutant: every response counts as a success
AnyResponseOk(response) == response.status_code >= 0

\* requests.Response.ok: the status is below 400
ResponseOk(response) == response.status_code < 400

RECURSIVE SeqsUpTo(_, _)
SeqsUpTo(S, n) ==
    IF n = 0 THEN {<<>>}
    ELSE LET shorter == SeqsUpTo(S, n - 1)
         IN shorter \cup {Append(v, x) : v \in {w \in shorter : Len(w) = n - 1}, x \in S}

Scores == 0..MaxScore
ScoreVectors == SeqsUpTo(Scores, MaxVecLen)

\* the JSON bodies of the classification service
TritonBodies ==
    {EmptyDict, "outputs" :> <<>>} \cup
    {"outputs" :> << [data |-> v] >> : v \in ScoreVectors}

TritonResponses ==
    {[status_code |-> 200, text |-> "ok", json |-> b] : b \in TritonBodies} \cup
    {[status_code |-> 503, text |-> "triton unavailable", json |-> b] :
        b \in {EmptyDict, "outputs" :> << [data |-> <<0, 1>>] >>}}

\* the JSON bodies of a backend
Choice(content) == [message |-> [content |-> content]]

\* two completions, one with usage figures, and two bodies without a
\* completion: no 'choices', and an empty 'choices' list
LlmBodies ==
    {"choices" :> <<Choice("answer one")>>,
     ("choices" :> <<Choice("answer two")>>) @@ ("usage" :> ("total_tokens" :> 7)),
     "id" :> "cmpl-1",
     "choices" :> <<>>}

LlmResponses ==
    {[status_code |-> 200, text |-> "ok", json |-> b] : b \in LlmBodies} \cup
    {[status_code |-> s, text |-> t, json |-> EmptyDict] :
        s \in {401, 500}, t \in {"bad key", "overloaded"}}

\* backend and policy records of a configuration file
LlmDataA ==
    ("name" :> <<"A">>) @@ ("api_base" :> "https://api-a") @@
    ("api_key" :> "key-a") @@ ("model" :> "llama-70b")
LlmDataB ==
    ("name" :> <<"B">>) @@ ("api_base" :> "https://api-b") @@
    ("api_key" :> "key-b") @@ ("model" :> "llama-8b")
LlmDataNoModel ==
    ("name" :> <<"C">>) @@ ("api_base" :> "https://api-c") @@ ("api_key" :> "key-c")

PolicyData(name, url, llms) ==
    ("name" :> name) @@ ("url" :> url) @@ ("llms" :> llms)

\* two policies called p with different backends, one called q, and two
\* malformed ones
PolicyDataInputs ==
    {PolicyData(<<"p">>, "http://router-server/p/infer", <<LlmDataA, LlmDataB>>),
     PolicyData(<<"p">>, "http://router-server/p2/infer", <<LlmDataB>>),
     PolicyData(<<"q">>, "http://router-server/q/infer", <<LlmDataB, LlmDataA>>),
     PolicyData(<<"q">>, "http://router-server/q/infer", <<LlmDataA, LlmDataNoModel>>),
     ("name" :> <<"r">>) @@ ("url" :> "http://router-server/r/infer")}

\* yaml.safe_load(content)
ConfigInputs ==
    {EmptyDict} \cup
    {"policies" :> ps : ps \in SeqsUpTo(PolicyDataInputs, MaxPolicies)}

\* what requests raises when a call gets no response
NetworkErrors == {"ConnectionError", "Timeout"}

(***************************************************************************)
(* The exceptions of route_request, by their message.                      *)
(***************************************************************************)
MissingParamsMsg == "Missing required 'nim-llm-router' parameters in request body"
PolicyNotFoundMsg == "Policy not found"
NoModelMsg == "No model specified for manual routing"
ModelNotFoundMsg == "Model not found"
NoStrategyMsg == "No routing strategy specified"
TritonErrorMsg == "Triton service error"
NoOutputsMsg == "No outputs returned from Triton response"
EmptyMaxMsg == "ValueError: max() arg is an empty sequence"
LlmNotFoundMsg == "LLM not found at index"
LlmErrorMsg == "LLM service error"

NoErr == [msg |-> "", status_code |-> 0, text |-> ""]
Exc(msg) == [msg |-> msg, status_code |-> 0, text |-> ""]
\* mutant: the message names the status only, the body is dropped
HttpExcWithoutBody(msg, response) ==
    [msg |-> msg, status_code |-> response.status_code, text |-> ""]

\* f"{prefix}: {response.status_code} - {response.text}"
HttpExc(msg, response) ==
    [msg |-> msg, status_code |-> response.status_code, text |-> response.text]

(***************************************************************************)
(* The pure helpers of NVIDIALLMRouterCore.                                *)
(***************************************************************************)
\* mutant: triton is assumed when no valid strategy is given
StrategyOrTriton(nim) ==
    IF Has(nim, "routing_strategy") /\ nim["routing_strategy"] = "manual"
    THEN "MANUAL" ELSE "TRITON"

StrategyOf(nim) ==
    IF Has(nim, "routing_strategy")
    THEN IF nim["routing_strategy"] = "manual" THEN "MANUAL"
         ELSE IF nim["routing_strategy"] = "triton" THEN "TRITON"
         ELSE "None"
    ELSE "None"

\* threshold=nim_params.get('threshold', 0.5), in tenths
DefaultThreshold == 5

\* mutant: the policy name is not required
extract_params_without_policy_check(body) ==
    LET nim == Get(body, NimKey, NoneRec)
    IN IF nim = NoneRec \/ nim = EmptyDict THEN NoneRec
       ELSE [policy |-> Get(nim, "policy", NoneVal),
             routing_strategy |-> StrategyOf(nim),
             model |-> Get(nim, "model", NoneVal),
             threshold |-> Get(nim, "threshold", DefaultThreshold)]

extract_nim_llm_router_params(body) ==
    LET nim == Get(body, NimKey, NoneRec)
    IN IF nim = NoneRec \/ nim = EmptyDict THEN NoneRec
       ELSE LET policy == Get(nim, "policy", NoneVal)
            IN IF policy = NoneVal \/ policy = EmptyStr THEN NoneRec
               ELSE [policy |-> policy,
                     routing_strategy |-> StrategyOf(nim),
                     model |-> Get(nim, "model", NoneVal),
                     threshold |-> Get(nim, "threshold", DefaultThreshold)]

\* a copy of the dict without the routing block
remove_nim_llm_router_params(body) ==
    [k \in DOMAIN body \ {NimKey} |-> body[k]]

extract_messages(body) == Get(body, "messages", <<>>)

\* mutant: the first message instead of the last (messages[0])
get_first_message_for_triton(messages) ==
    IF messages # <<>>
    THEN Get(messages[1], "content", EmptyStr)
    ELSE EmptyStr

get_last_message_for_triton(messages) ==
    IF messages # <<>>
    THEN Get(messages[Len(messages)], "content", EmptyStr)
    ELSE EmptyStr

\* mutant: the caller's model is kept when there is one (setdefault)
modify_model_keep_callers(body, model) ==
    [k \in DOMAIN body \cup {"model"} |-> IF k \in DOMAIN body THEN body[k] ELSE model]

\* json.dumps of a str: quoted, with ", \ and newline escaped
JsonEscapeChar(c) ==
    IF c = "\"" THEN <<"\\", "\"">>
    ELSE IF c = "\\" THEN <<"\\", "\\">>
    ELSE IF c = "\n" THEN <<"\\", "n">>
    ELSE <<c>>

\* character by character, split in halves to keep the evaluation shallow;
\* a stretch without a character to escape is its own escape
RECURSIVE JsonEscape(_)
JsonEscape(s) ==
    IF \A i \in 1..Len(s) : s[i] \notin {"\"", "\\", "\n"} THEN s
    ELSE IF Len(s) = 1 THEN JsonEscapeChar(s[1])
    ELSE LET half == Len(s) \div 2
         IN JsonEscape(SubSeq(s, 1, half)) \o JsonEscape(SubSeq(s, half + 1, Len(s)))

JsonString(s) == <<"\"">> \o JsonEscape(s) \o <<"\"">>

\* json.dumps of one message: {"role": "...", "content": "..."}
JsonMessage(m) ==
    <<"{">> \o <<"\"", "r", "o", "l", "e", "\"", ":", " ">> \o JsonString(m.role)
    \o (IF Has(m, "content")
        THEN <<",", " ", "\"", "c", "o", "n", "t", "e", "n", "t", "\"", ":", " ">> \o JsonString(m.content)
        ELSE <<>>)
    \o <<"}">>

\* json.dumps(messages): [m1, m2, ...]
RECURSIVE JsonItems(_)
JsonItems(messages) ==
    IF messages = <<>> THEN <<>>
    ELSE IF Len(messages) = 1 THEN JsonMessage(messages[1])
    ELSE JsonMessage(messages[1]) \o <<",", " ">> \o JsonItems(Tail(messages))

json_dumps(messages) == <<"[">> \o JsonItems(messages) \o <<"]">>

\* mutant: the head is kept instead of the tail (text_input[:2000])
ShortenKeepHead(text_input) ==
    IF Len(text_input) > MaxTextLen
    THEN SubSeq(text_input, 1, MaxTextLen)
    ELSE text_input

\* if len(text_input) > 2000: text_input = text_input[-2000:]
Shorten(text_input) ==
    IF Len(text_input) > MaxTextLen
    THEN SubSeq(text_input, Len(text_input) - MaxTextLen + 1, Len(text_input))
    ELSE text_input

convert_messages_to_text_input(messages) == Shorten(json_dumps(messages))

\* a copy of the dict with 'model' set
modify_model_in_request(body, model) ==
    [k \in DOMAIN body \cup {"model"} |-> IF k = "model" THEN model ELSE body[k]]

\* the loop of choose_model_manual: the 0-based index of the first backend
\* whose name is model_name, -1 when the loop ends without one (the raise)
RECURSIVE ManualFrom(_, _, _)
ManualFrom(llms, model_name, i) ==
    IF i > Len(llms) THEN -1
    ELSE IF llms[i].name = model_name THEN i - 1
    ELSE ManualFrom(llms, model_name, i + 1)

\* mutant: the position counted from 1, as enumerate(policy.llms, 1) would
choose_model_manual_from_one(policy, model_name) ==
    LET i == ManualFrom(policy.llms, model_name, 1)
    IN IF i = -1 THEN -1 ELSE i + 1

\* mutant: an unknown name selects the first backend
choose_model_manual_or_first(policy, model_name) ==
    LET i == ManualFrom(policy.llms, model_name, 1)
    IN IF i = -1 THEN 0 ELSE i

choose_model_manual(policy, model_name) == ManualFrom(policy.llms, model_name, 1)

\* mutant: the last position of the maximum instead of the first
ArgMaxLast(probabilities) ==
    LET m == ListMax(probabilities)
    IN (CHOOSE i \in 1..Len(probabilities) :
            /\ probabilities[i] = m
            /\ \A j \in (i + 1)..Len(probabilities) : probabilities[j] # m) - 1

\* the tail of choose_model_with_triton: probabilities.index(max(probabilities))
ArgMax(probabilities) == ListIndex(probabilities, ListMax(probabilities))

\* the classifier request body built by choose_model_with_triton
\* mutant: a maximum below the threshold (in tenths) selects the first backend
choose_model_index_above(probabilities, threshold) ==
    IF ListMax(probabilities) * 10 >= threshold
    THEN ArgMax(probabilities)
    ELSE 0

\* choose_model_with_triton(text_input, policy, threshold): the index it
\* returns; threshold is a parameter the body never reads
choose_model_index(probabilities, threshold) == ArgMax(probabilities)

TritonRequest(text_input) ==
    [inputs |-> << [name |-> "INPUT", datatype |-> "BYTES",
                    shape |-> <<1, 1>>, data |-> << <<text_input>> >>] >>]

(***************************************************************************)
(* NVIDIARouterService: the educational wrapper around route_request.      *)
(***************************************************************************)
UpperCase == <<"A", "B", "C", "D", "E", "F", "G", "H", "I", "J", "K", "L",
             "M", "N", "O", "P", "Q", "R", "S", "T", "U", "V", "W", "X",
             "Y", "Z">>
LowerCase == <<"a", "b", "c", "d", "e", "f", "g", "h", "i", "j", "k", "l",
             "m", "n", "o", "p", "q", "r", "s", "t", "u", "v", "w", "x",
             "y", "z">>

\* str.lower
Lower(s) ==
    [i \in 1..Len(s) |->
        IF \E k \in 1..Len(UpperCase) : UpperCase[k] = s[i]
        THEN LowerCase[CHOOSE k \in 1..Len(UpperCase) : UpperCase[k] = s[i]]
        ELSE s[i]]

\* pattern in text
Contains(pattern, text) ==
    \E i \in 0..(Len(text) - Len(pattern)) :
        SubSeq(text, i + 1, i + Len(pattern)) = pattern

Whitespace == {" ", "\n", "\t"}

\* len(query.split())
WordCount(query) ==
    Cardinality({i \in 1..Len(query) :
        /\ query[i] \notin Whitespace
        /\ i = 1 \/ query[i - 1] \in Whitespace})

\* self.subject_patterns, in the order of the dict
subject_patterns ==
    <<
      [subject |-> <<"M", "a", "t", "h", "e", "m", "a", "t", "i", "c",
                   "s">>,
       patterns |-> <<<<"m", "a", "t", "h">>,
                      <<"a", "l", "g", "e", "b", "r", "a">>,
                      <<"c", "a", "l", "c", "u", "l", "u", "s">>,
                      <<"g", "e", "o", "m", "e", "t", "r", "y">>,
                      <<"s", "t", "a", "t", "i", "s", "t", "i", "c", "s">>>>],
      [subject |-> <<"S", "c", "i", "e", "n", "c", "e">>,
       patterns |-> <<<<"s", "c", "i", "e", "n", "c", "e">>,
                      <<"p", "h", "y", "s", "i", "c", "s">>,
                      <<"c", "h", "e", "m", "i", "s", "t", "r", "y">>,
                      <<"b", "i", "o", "l", "o", "g", "y">>,
                      <<"e", "x", "p", "e", "r", "i", "m", "e", "n", "t">>>>],
      [subject |-> <<"C", "o", "m", "p", "u", "t", "e", "r", " ", "S", "c",
                   "i", "e", "n", "c", "e">>,
       patterns |-> <<<<"p", "r", "o", "g", "r", "a", "m", "m", "i", "n", "g">>,
                      <<"c", "o", "d", "e">>,
                      <<"a", "l", "g", "o", "r", "i", "t", "h", "m">>,
                      <<"f", "u", "n", "c", "t", "i", "o", "n">>,
                      <<"p", "y", "t", "h", "o", "n">>>>],
      [subject |-> <<"H", "i", "s", "t", "o", "r", "y">>,
       patterns |-> <<<<"h", "i", "s", "t", "o", "r", "y">>,
                      <<"w", "a", "r">>,
                      <<"r", "e", "v", "o", "l", "u", "t", "i", "o", "n">>,
                      <<"a", "n", "c", "i", "e", "n", "t">>,
                      <<"h", "i", "s", "t", "o", "r", "i", "c", "a", "l">>>>],
      [subject |-> <<"L", "i", "t", "e", "r", "a", "t", "u", "r", "e">>,
       patterns |-> <<<<"l", "i", "t", "e", "r", "a", "t", "u", "r", "e">>,
                      <<"n", "o", "v", "e", "l">>,
                      <<"p", "o", "e", "m">>,
                      <<"p", "o", "e", "t", "r", "y">>,
                      <<"a", "u", "t", "h", "o", "r">>>>]
    >>

General == <<"G", "e", "n", "e", "r", "a", "l">>

\* sum(1 for pattern in patterns if pattern in query_lower)
SubjectScore(patterns, query_lower) ==
    Cardinality({k \in 1..Len(patterns) : Contains(patterns[k], query_lower)})

\* NVIDIARouterService.detect_subject: the first subject of the highest
\* score among those that score at all
detect_subject(query) ==
    LET query_lower == Lower(query)
        score(i) == SubjectScore(subject_patterns[i].patterns, query_lower)
        scored == {i \in 1..Len(subject_patterns) : score(i) > 0}
    IN IF scored = {} THEN General
       ELSE subject_patterns[
                CHOOSE i \in scored :
                    /\ \A j \in scored : score(j) <= score(i)
                    /\ \A j \in scored : j < i => score(j) < score(i)].subject

AnyTermIn(terms, text) == \E k \in 1..Len(terms) : Contains(terms[k], text)

\* more words than this make a Graduate question
GraduateWords == 20

\* NVIDIARouterService.detect_difficulty
detect_difficulty(query) ==
    LET query_lower == Lower(query)
    IN IF AnyTermIn(<<<<"s", "i", "m", "p", "l", "e">>, <<"b", "a", "s", "i", "c">>, <<"w", "h", "a", "t", " ", "i", "s">>>>, query_lower)
       THEN <<"E", "l", "e", "m", "e", "n", "t", "a", "r", "y">>
       ELSE IF AnyTermIn(<<<<"e", "x", "p", "l", "a", "i", "n">>, <<"h", "o", "w", " ", "d", "o", "e", "s">>>>, query_lower)
       THEN <<"M", "i", "d", "d", "l", "e", " ", "S", "c", "h", "o", "o", "l">>
       ELSE IF AnyTermIn(<<<<"a", "n", "a", "l", "y", "z", "e">>, <<"c", "o", "m", "p", "a", "r", "e">>, <<"e", "v", "a", "l", "u", "a", "t", "e">>>>, query_lower)
       THEN <<"C", "o", "l", "l", "e", "g", "e">>
       ELSE IF WordCount(query) > GraduateWords
       THEN <<"G", "r", "a", "d", "u", "a", "t", "e">>
       ELSE <<"H", "i", "g", "h", " ", "S", "c", "h", "o", "o", "l">>

\* the content of the one message process_educational_query sends
Prompt(query, subject, difficulty) ==
    <<"Y", "o", "u", " ", "a", "r", "e", " ", "a", " ", "h", "e", "l", "p",
    "f", "u", "l", " ", "s", "t", "u", "d", "y", " ", "b", "u", "d", "d",
    "y", " ", "a", "s", "s", "i", "s", "t", "a", "n", "t", ".", " ", "T",
    "h", "e", " ", "s", "t", "u", "d", "e", "n", "t", " ", "i", "s", " ",
    "a", "s", "k", "i", "n", "g", " ", "a", "b", "o", "u", "t", " ">>
    \o subject
    \o <<" ", "a", "t", " ", "a", " ">>
    \o difficulty
    \o <<" ", "l", "e", "v", "e", "l", ".", "\n", "\n", "S", "t", "u", "d",
       "e", "n", "t", "'", "s", " ", "q", "u", "e", "s", "t", "i", "o",
       "n", ":", " ">>
    \o query
    \o <<"\n", "\n", "P", "l", "e", "a", "s", "e", " ", "p", "r", "o", "v",
       "i", "d", "e", " ", "a", " ", "c", "l", "e", "a", "r", ",", " ",
       "e", "d", "u", "c", "a", "t", "i", "o", "n", "a", "l", " ", "r",
       "e", "s", "p", "o", "n", "s", "e", " ", "w", "i", "t", "h", " ",
       "s", "t", "e", "p", "-", "b", "y", "-", "s", "t", "e", "p", " ",
       "e", "x", "p", "l", "a", "n", "a", "t", "i", "o", "n", "s", " ",
       "a", "p", "p", "r", "o", "p", "r", "i", "a", "t", "e", " ", "f",
       "o", "r", " ", "t", "h", "e", " ">>
    \o difficulty
    \o <<" ", "l", "e", "v", "e", "l", ".">>

\* mutant: the directive names the backend A
EduRequestNamingBackend(query, policy_name, routing_strategy, subject, difficulty) ==
    ("model" :> "") @@
    ("messages" :> << [role |-> User, content |-> Prompt(query, subject, difficulty)] >>) @@
    ("max_tokens" :> 1024) @@
    ("temperature" :> 7) @@
    (NimKey :> (("policy" :> policy_name) @@ ("routing_strategy" :> routing_strategy) @@
                ("model" :> <<"A">>)))

\* request_body of process_educational_query; temperature in tenths
EduRequest(query, policy_name, routing_strategy, subject, difficulty) ==
    ("model" :> "") @@
    ("messages" :> << [role |-> User, content |-> Prompt(query, subject, difficulty)] >>) @@
    ("max_tokens" :> 1024) @@
    ("temperature" :> 7) @@
    (NimKey :> (("policy" :> policy_name) @@ ("routing_strategy" :> routing_strategy)))

IndexError == [ok |-> FALSE, value |-> NoneRec, key |-> "list index out of range"]

\* mutant: a body without a completion counts as an empty answer
AnswerOrEmpty(response_data) ==
    IF ~Has(response_data, "choices") \/ response_data["choices"] = <<>>
    THEN Loaded("")
    ELSE Loaded(response_data["choices"][1].message.content)

\* response_data['choices'][0]['message']['content']
Answer(response_data) ==
    IF ~Has(response_data, "choices") THEN KeyError("choices")
    ELSE IF response_data["choices"] = <<>> THEN IndexError
    ELSE Loaded(response_data["choices"][1].message.content)

Apology(subject) ==
    <<"I", " ", "a", "p", "o", "l", "o", "g", "i", "z", "e", ",", " ", "b",
    "u", "t", " ", "I", " ", "e", "n", "c", "o", "u", "n", "t", "e", "r",
    "e", "d", " ", "a", "n", " ", "e", "r", "r", "o", "r", " ", "p", "r",
    "o", "c", "e", "s", "s", "i", "n", "g", " ", "y", "o", "u", "r", " ">>
    \o subject
    \o <<" ", "q", "u", "e", "s", "t", "i", "o", "n", ".", " ", "P", "l",
       "e", "a", "s", "e", " ", "t", "r", "y", " ", "a", "g", "a", "i",
       "n", ".">>

\* the dict of the except branch; the elapsed time is not modelled
EduError(call, error) ==
    ("error" :> error) @@
    ("response" :> Apology(call.subject)) @@
    ("model_used" :> "error") @@
    ("response_time" :> "elapsed") @@
    ("detected_subject" :> call.subject) @@
    ("detected_difficulty" :> call.difficulty)

\* the dict of the try branch
EduSuccess(call, content, routed) ==
    ("response" :> content) @@
    ("model_used" :> routed.chosen_model) @@
    ("classifier_used" :> routed.chosen_classifier) @@
    ("policy_used" :> call.policy) @@
    ("routing_strategy" :> call.routing_strategy) @@
    ("response_time" :> "elapsed") @@
    ("detected_subject" :> call.subject) @@
    ("detected_difficulty" :> call.difficulty) @@
    ("usage" :> Get(routed.response_data, "usage", EmptyDict)) @@
    ("raw_response" :> routed.response_data)

\* try: route_request, read the answer; except Exception: the error dict
EduOutcome(call, raised, error, routed) ==
    IF raised THEN EduError(call, error)
    ELSE LET content == Answer(routed.response_data)
         IN IF content.ok
            THEN EduSuccess(call, content.value, routed)
            ELSE EduError(call, Exc(content.key))

\* questions: one per difficulty, a word in capitals, several subjects
QueryInputs ==
    {<<"W", "h", "a", "t", " ", "i", "s", " ", "M", "A", "T", "H", "?">>,
     <<"E", "x", "p", "l", "a", "i", "n", " ", "p", "y", "t", "h", "o",
     "n", " ", "c", "o", "d", "e">>,
     <<"c", "o", "m", "p", "a", "r", "e", " ", "w", "a", "r", " ", "p",
     "o", "e", "m", " ", "p", "o", "e", "t", "r", "y">>,
     <<"h", "i">>,
     [i \in 1..(2 * GraduateWords + 1) |-> IF i % 2 = 1 THEN "a" ELSE " "]}

EduPolicyInputs == {<<"p">>, <<"z">>}
EduStrategyInputs == {"triton", "manual"}

(***************************************************************************)
(* The study buddy web application: TaskClassifier, LLMRouter and          *)
(* StudyBuddyService of study_buddy_app.py.                                *)
(***************************************************************************)
\* TaskClassifier.TASK_PATTERNS, in the order of the dict
TASK_PATTERNS ==
    <<
      [category |-> <<"s", "i", "m", "p", "l", "e", "_", "q", "a">>,
       patterns |-> <<<<"w", "h", "a", "t", " ", "i", "s">>,
                      <<"d", "e", "f", "i", "n", "e">>,
                      <<"d", "e", "f", "i", "n", "i", "t", "i", "o", "n", " ",
                        "o", "f">>,
                      <<"m", "e", "a", "n", "i", "n", "g", " ", "o", "f">>,
                      <<"w", "h", "o", " ", "i", "s">>,
                      <<"w", "h", "e", "n", " ", "d", "i", "d">>,
                      <<"w", "h", "e", "r", "e", " ", "i", "s">>,
                      <<"h", "o", "w", " ", "m", "a", "n", "y">>,
                      <<"l", "i", "s", "t">>,
                      <<"n", "a", "m", "e">>,
                      <<"i", "d", "e", "n", "t", "i", "f", "y">>>>],
      [category |-> <<"c", "o", "m", "p", "l", "e", "x", "_", "r", "e", "a",
                     "s", "o", "n", "i", "n", "g">>,
       patterns |-> <<<<"e", "x", "p", "l", "a", "i", "n", " ", "w", "h", "y">>,
                      <<"a", "n", "a", "l", "y", "z", "e">>,
                      <<"c", "o", "m", "p", "a", "r", "e">>,
                      <<"c", "o", "n", "t", "r", "a", "s", "t">>,
                      <<"e", "v", "a", "l", "u", "a", "t", "e">>,
                      <<"j", "u", "s", "t", "i", "f", "y">>,
                      <<"a", "r", "g", "u", "e">>,
                      <<"d", "i", "s", "c", "u", "s", "s">>,
                      <<"e", "x", "a", "m", "i", "n", "e">>,
                      <<"a", "s", "s", "e", "s", "s">>,
                      <<"c", "r", "i", "t", "i", "q", "u", "e">>,
                      <<"s", "y", "n", "t", "h", "e", "s", "i", "z", "e">>>>],
      [category |-> <<"c", "o", "d", "e", "_", "g", "e", "n", "e", "r", "a",
                     "t", "i", "o", "n">>,
       patterns |-> <<<<"w", "r", "i", "t", "e", " ", "c", "o", "d", "e">>,
                      <<"p", "r", "o", "g", "r", "a", "m">>,
                      <<"f", "u", "n", "c", "t", "i", "o", "n">>,
                      <<"a", "l", "g", "o", "r", "i", "t", "h", "m">>,
                      <<"d", "e", "b", "u", "g">>,
                      <<"f", "i", "x", " ", "c", "o", "d", "e">>,
                      <<"i", "m", "p", "l", "e", "m", "e", "n", "t">>,
                      <<"c", "l", "a", "s", "s">>,
                      <<"m", "e", "t", "h", "o", "d">>,
                      <<"v", "a", "r", "i", "a", "b", "l", "e">>,
                      <<"l", "o", "o", "p">>,
                      <<"i", "f", " ", "s", "t", "a", "t", "e", "m", "e", "n",
                        "t">>>>],
      [category |-> <<"c", "r", "e", "a", "t", "i", "v", "e", "_", "w", "r",
                     "i", "t", "i", "n", "g">>,
       patterns |-> <<<<"w", "r", "i", "t", "e", " ", "e", "s", "s", "a", "y">>,
                      <<"c", "r", "e", "a", "t", "i", "v", "e", " ", "w", "r",
                        "i", "t", "i", "n", "g">>,
                      <<"s", "t", "o", "r", "y">>,
                      <<"p", "o", "e", "m">>,
                      <<"b", "r", "a", "i", "n", "s", "t", "o", "r", "m">>,
                      <<"g", "e", "n", "e", "r", "a", "t", "e", " ", "i", "d",
                        "e", "a", "s">>,
                      <<"o", "u", "t", "l", "i", "n", "e">>,
                      <<"d", "r", "a", "f", "t">>,
                      <<"n", "a", "r", "r", "a", "t", "i", "v", "e">>,
                      <<"p", "e", "r", "s", "u", "a", "s", "i", "v", "e">>>>],
      [category |-> <<"m", "a", "t", "h", "e", "m", "a", "t", "i", "c", "s">>,
       patterns |-> <<<<"s", "o", "l", "v", "e">>,
                      <<"c", "a", "l", "c", "u", "l", "a", "t", "e">>,
                      <<"e", "q", "u", "a", "t", "i", "o", "n">>,
                      <<"f", "o", "r", "m", "u", "l", "a">>,
                      <<"d", "e", "r", "i", "v", "a", "t", "i", "v", "e">>,
                      <<"i", "n", "t", "e", "g", "r", "a", "l">>,
                      <<"p", "r", "o", "b", "a", "b", "i", "l", "i", "t", "y">>,
                      <<"s", "t", "a", "t", "i", "s", "t", "i", "c", "s">>,
                      <<"g", "e", "o", "m", "e", "t", "r", "y">>,
                      <<"a", "l", "g", "e", "b", "r", "a">>,
                      <<"c", "a", "l", "c", "u", "l", "u", "s">>>>]
    >>

\* TaskClassifier.SUBJECT_PATTERNS, in the order of the dict
SUBJECT_PATTERNS ==
    <<
      [subject |-> <<"M", "a", "t", "h", "e", "m", "a", "t", "i", "c", "s">>,
       patterns |-> <<<<"m", "a", "t", "h">>,
                      <<"a", "l", "g", "e", "b", "r", "a">>,
                      <<"c", "a", "l", "c", "u", "l", "u", "s">>,
                      <<"g", "e", "o", "m", "e", "t", "r", "y">>,
                      <<"t", "r", "i", "g", "o", "n", "o", "m", "e", "t", "r",
                        "y">>,
                      <<"s", "t", "a", "t", "i", "s", "t", "i", "c", "s">>,
                      <<"p", "r", "o", "b", "a", "b", "i", "l", "i", "t", "y">>,
                      <<"e", "q", "u", "a", "t", "i", "o", "n">>,
                      <<"d", "e", "r", "i", "v", "a", "t", "i", "v", "e">>,
                      <<"i", "n", "t", "e", "g", "r", "a", "l">>,
                      <<"s", "o", "l", "v", "e">>,
                      <<"c", "a", "l", "c", "u", "l", "a", "t", "e">>>>],
      [subject |-> <<"S", "c", "i", "e", "n", "c", "e">>,
       patterns |-> <<<<"s", "c", "i", "e", "n", "c", "e">>,
                      <<"p", "h", "y", "s", "i", "c", "s">>,
                      <<"c", "h", "e", "m", "i", "s", "t", "r", "y">>,
                      <<"b", "i", "o", "l", "o", "g", "y">>,
                      <<"e", "x", "p", "e", "r", "i", "m", "e", "n", "t">>,
                      <<"m", "o", "l", "e", "c", "u", "l", "e">>,
                      <<"a", "t", "o", "m">>,
                      <<"c", "e", "l", "l">>,
                      <<"D", "N", "A">>,
                      <<"e", "v", "o", "l", "u", "t", "i", "o", "n">>,
                      <<"p", "h", "o", "t", "o", "s", "y", "n", "t", "h", "e",
                        "s", "i", "s">>,
                      <<"g", "r", "a", "v", "i", "t", "y">>>>],
      [subject |-> <<"C", "o", "m", "p", "u", "t", "e", "r", " ", "S", "c",
                     "i", "e", "n", "c", "e">>,
       patterns |-> <<<<"p", "r", "o", "g", "r", "a", "m", "m", "i", "n", "g">>,
                      <<"c", "o", "d", "e">>,
                      <<"a", "l", "g", "o", "r", "i", "t", "h", "m">>,
                      <<"f", "u", "n", "c", "t", "i", "o", "n">>,
                      <<"v", "a", "r", "i", "a", "b", "l", "e">>,
                      <<"l", "o", "o", "p">>,
                      <<"p", "y", "t", "h", "o", "n">>,
                      <<"j", "a", "v", "a", "s", "c", "r", "i", "p", "t">>,
                      <<"j", "a", "v", "a">>,
                      <<"C", "+", "+">>,
                      <<"d", "a", "t", "a", "b", "a", "s", "e">>,
                      <<"A", "P", "I">>>>],
      [subject |-> <<"H", "i", "s", "t", "o", "r", "y">>,
       patterns |-> <<<<"h", "i", "s", "t", "o", "r", "y">>,
                      <<"w", "a", "r">>,
                      <<"r", "e", "v", "o", "l", "u", "t", "i", "o", "n">>,
                      <<"a", "n", "c", "i", "e", "n", "t">>,
                      <<"m", "e", "d", "i", "e", "v", "a", "l">>,
                      <<"c", "e", "n", "t", "u", "r", "y">>,
                      <<"e", "m", "p", "i", "r", "e">>,
                      <<"c", "i", "v", "i", "l", "i", "z", "a", "t", "i", "o",
                        "n">>,
                      <<"h", "i", "s", "t", "o", "r", "i", "c", "a", "l">>,
                      <<"t", "i", "m", "e", "l", "i", "n", "e">>>>],
      [subject |-> <<"L", "i", "t", "e", "r", "a", "t", "u", "r", "e">>,
       patterns |-> <<<<"l", "i", "t", "e", "r", "a", "t", "u", "r", "e">>,
                      <<"n", "o", "v", "e", "l">>,
                      <<"p", "o", "e", "m">>,
                      <<"p", "o", "e", "t", "r", "y">>,
                      <<"a", "u", "t", "h", "o", "r">>,
                      <<"c", "h", "a", "r", "a", "c", "t", "e", "r">>,
                      <<"p", "l", "o", "t">>,
                      <<"t", "h", "e", "m", "e">>,
                      <<"m", "e", "t", "a", "p", "h", "o", "r">>,
                      <<"e", "s", "s", "a", "y">>,
                      <<"w", "r", "i", "t", "i", "n", "g">>>>],
      [subject |-> <<"P", "h", "y", "s", "i", "c", "s">>,
       patterns |-> <<<<"p", "h", "y", "s", "i", "c", "s">>,
                      <<"f", "o", "r", "c", "e">>,
                      <<"e", "n", "e", "r", "g", "y">>,
                      <<"m", "o", "m", "e", "n", "t", "u", "m">>,
                      <<"v", "e", "l", "o", "c", "i", "t", "y">>,
                      <<"a", "c", "c", "e", "l", "e", "r", "a", "t", "i", "o",
                        "n">>,
                      <<"q", "u", "a", "n", "t", "u", "m">>,
                      <<"r", "e", "l", "a", "t", "i", "v", "i", "t", "y">>,
                      <<"e", "l", "e", "c", "t", "r", "o", "m", "a", "g", "n",
                        "e", "t", "i", "c">>,
                      <<"t", "h", "e", "r", "m", "o", "d", "y", "n", "a", "m",
                        "i", "c", "s">>>>],
      [subject |-> <<"C", "h", "e", "m", "i", "s", "t", "r", "y">>,
       patterns |-> <<<<"c", "h", "e", "m", "i", "s", "t", "r", "y">>,
                      <<"c", "h", "e", "m", "i", "c", "a", "l">>,
                      <<"r", "e", "a", "c", "t", "i", "o", "n">>,
                      <<"c", "o", "m", "p", "o", "u", "n", "d">>,
                      <<"e", "l", "e", "m", "e", "n", "t">>,
                      <<"p", "e", "r", "i", "o", "d", "i", "c">>,
                      <<"m", "o", "l", "e", "c", "u", "l", "e">>,
                      <<"b", "o", "n", "d">>,
                      <<"a", "c", "i", "d">>,
                      <<"b", "a", "s", "e">>,
                      <<"o", "r", "g", "a", "n", "i", "c">>,
                      <<"i", "n", "o", "r", "g", "a", "n", "i", "c">>>>],
      [subject |-> <<"B", "i", "o", "l", "o", "g", "y">>,
       patterns |-> <<<<"b", "i", "o", "l", "o", "g", "y">>,
                      <<"c", "e", "l", "l">>,
                      <<"o", "r", "g", "a", "n", "i", "s", "m">>,
                      <<"D", "N", "A">>,
                      <<"g", "e", "n", "e">>,
                      <<"e", "v", "o", "l", "u", "t", "i", "o", "n">>,
                      <<"e", "c", "o", "s", "y", "s", "t", "e", "m">>,
                      <<"p", "h", "o", "t", "o", "s", "y", "n", "t", "h", "e",
                        "s", "i", "s">>,
                      <<"r", "e", "s", "p", "i", "r", "a", "t", "i", "o", "n">>,
                      <<"a", "n", "a", "t", "o", "m", "y">>,
                      <<"p", "h", "y", "s", "i", "o", "l", "o", "g", "y">>>>],
      [subject |-> <<"E", "c", "o", "n", "o", "m", "i", "c", "s">>,
       patterns |-> <<<<"e", "c", "o", "n", "o", "m", "i", "c", "s">>,
                      <<"m", "a", "r", "k", "e", "t">>,
                      <<"s", "u", "p", "p", "l", "y">>,
                      <<"d", "e", "m", "a", "n", "d">>,
                      <<"i", "n", "f", "l", "a", "t", "i", "o", "n">>,
                      <<"G", "D", "P">>,
                      <<"t", "r", "a", "d", "e">>,
                      <<"i", "n", "v", "e", "s", "t", "m", "e", "n", "t">>,
                      <<"c", "a", "p", "i", "t", "a", "l", "i", "s", "m">>,
                      <<"s", "o", "c", "i", "a", "l", "i", "s", "m">>>>]
    >>

\* TaskClassifier.DIFFICULTY_PATTERNS, in the order of the dict
DIFFICULTY_PATTERNS ==
    <<
      [difficulty |-> <<"E", "l", "e", "m", "e", "n", "t", "a", "r", "y">>,
       patterns |-> <<<<"s", "i", "m", "p", "l", "e">>,
                      <<"b", "a", "s", "i", "c">>,
                      <<"e", "a", "s", "y">>,
                      <<"b", "e", "g", "i", "n", "n", "e", "r">>,
                      <<"i", "n", "t", "r", "o", "d", "u", "c", "t", "i", "o",
                        "n">>,
                      <<"w", "h", "a", "t", " ", "i", "s">>,
                      <<"e", "l", "e", "m", "e", "n", "t", "a", "r", "y">>,
                      <<"g", "r", "a", "d", "e", " ", "s", "c", "h", "o", "o",
                        "l">>>>],
      [difficulty |-> <<"M", "i", "d", "d", "l", "e", " ", "S", "c", "h", "o",
                     "o", "l">>,
       patterns |-> <<<<"m", "i", "d", "d", "l", "e", " ", "s", "c", "h", "o",
                        "o", "l">>,
                      <<"j", "u", "n", "i", "o", "r", " ", "h", "i", "g", "h">>,
                      <<"i", "n", "t", "e", "r", "m", "e", "d", "i", "a", "t",
                        "e">>,
                      <<"e", "x", "p", "l", "a", "i", "n", " ", "s", "i", "m",
                        "p", "l", "y">>>>],
      [difficulty |-> <<"H", "i", "g", "h", " ", "S", "c", "h", "o", "o", "l">>,
       patterns |-> <<<<"h", "i", "g", "h", " ", "s", "c", "h", "o", "o", "l">>,
                      <<"s", "e", "c", "o", "n", "d", "a", "r", "y">>,
                      <<"a", "d", "v", "a", "n", "c", "e", "d">>,
                      <<"A", "P">>,
                      <<"h", "o", "n", "o", "r", "s">>>>],
      [difficulty |-> <<"C", "o", "l", "l", "e", "g", "e">>,
       patterns |-> <<<<"c", "o", "l", "l", "e", "g", "e">>,
                      <<"u", "n", "i", "v", "e", "r", "s", "i", "t", "y">>,
                      <<"u", "n", "d", "e", "r", "g", "r", "a", "d", "u", "a",
                        "t", "e">>,
                      <<"b", "a", "c", "h", "e", "l", "o", "r">>,
                      <<"a", "c", "a", "d", "e", "m", "i", "c">>,
                      <<"r", "e", "s", "e", "a", "r", "c", "h">>,
                      <<"t", "h", "e", "s", "i", "s">>,
                      <<"c", "o", "m", "p", "l", "e", "x">>>>],
      [difficulty |-> <<"G", "r", "a", "d", "u", "a", "t", "e">>,
       patterns |-> <<<<"g", "r", "a", "d", "u", "a", "t", "e">>,
                      <<"m", "a", "s", "t", "e", "r", "s">>,
                      <<"P", "h", "D">>,
                      <<"d", "o", "c", "t", "o", "r", "a", "l">>,
                      <<"r", "e", "s", "e", "a", "r", "c", "h">>,
                      <<"a", "d", "v", "a", "n", "c", "e", "d", " ", "s", "t",
                        "u", "d", "y">>,
                      <<"d", "i", "s", "s", "e", "r", "t", "a", "t", "i", "o",
                        "n">>,
                      <<"s", "c", "h", "o", "l", "a", "r", "l", "y">>>>]
    >>

\* complexity_indicators of TaskClassifier.detect_difficulty
complexity_indicators ==
    <<<<"a", "n", "a", "l", "y", "z", "e">>,
      <<"e", "v", "a", "l", "u", "a", "t", "e">>,
      <<"s", "y", "n", "t", "h", "e", "s", "i", "z", "e">>,
      <<"c", "r", "i", "t", "i", "q", "u", "e">>,
      <<"c", "o", "m", "p", "a", "r", "e">>,
      <<"c", "o", "n", "t", "r", "a", "s", "t">>,
      <<"j", "u", "s", "t", "i", "f", "y">>,
      <<"a", "r", "g", "u", "e">>,
      <<"d", "i", "s", "c", "u", "s", "s">>,
      <<"e", "x", "a", "m", "i", "n", "e">>,
      <<"a", "s", "s", "e", "s", "s">>>>

\* LLMRouter.MODEL_CONFIGS, in the order of the dict; cost_per_token in
\* ten-thousandths, temperature in tenths
MODEL_CONFIGS ==
    <<
      [task |-> <<"s", "i", "m", "p", "l", "e", "_", "q", "a">>,
       model |-> "meta/llama-3.1-8b-instruct",
       cost_per_token |-> 2,
       max_tokens |-> 512,
       temperature |-> 3],
      [task |-> <<"c", "o", "m", "p", "l", "e", "x", "_", "r", "e", "a", "s",
                  "o", "n", "i", "n", "g">>,
       model |-> "meta/llama-3.1-70b-instruct",
       cost_per_token |-> 6,
       max_tokens |-> 1024,
       temperature |-> 7],
      [task |-> <<"c", "o", "d", "e", "_", "g", "e", "n", "e", "r", "a", "t",
                  "i", "o", "n">>,
       model |-> "meta/codellama-70b",
       cost_per_token |-> 6,
       max_tokens |-> 2048,
       temperature |-> 1],
      [task |-> <<"c", "r", "e", "a", "t", "i", "v", "e", "_", "w", "r", "i",
                  "t", "i", "n", "g">>,
       model |-> "mistralai/mixtral-8x7b-instruct-v0.1",
       cost_per_token |-> 5,
       max_tokens |-> 1536,
       temperature |-> 8],
      [task |-> <<"m", "a", "t", "h", "e", "m", "a", "t", "i", "c", "s">>,
       model |-> "nvidia/nemotron-4-340b-instruct",
       cost_per_token |-> 80,
       max_tokens |-> 1024,
       temperature |-> 2]
    >>

\* fallbacks of LLMRouter._generate_fallback_response_by_type
fallbacks ==
    <<
      [task |-> <<"s", "i", "m", "p", "l", "e", "_", "q", "a">>,
       text |-> <<"I", " ", "c", "a", "n", " ", "h", "e", "l", "p", " ", "e",
                  "x", "p", "l", "a", "i", "n", " ", "t", "h", "i", "s", " ",
                  "c", "o", "n", "c", "e", "p", "t", "!", " ", "T", "h", "i",
                  "s", " ", "i", "s", " ", "a", " ", "f", "u", "n", "d", "a",
                  "m", "e", "n", "t", "a", "l", " ", "t", "o", "p", "i", "c",
                  " ", "t", "h", "a", "t", " ", "i", "n", "v", "o", "l", "v",
                  "e", "s", " ", "k", "e", "y", " ", "p", "r", "i", "n", "c",
                  "i", "p", "l", "e", "s", " ", "a", "n", "d", " ", "d", "e",
                  "f", "i", "n", "i", "t", "i", "o", "n", "s", ".", " ", "L",
                  "e", "t", " ", "m", "e", " ", "b", "r", "e", "a", "k", " ",
                  "i", "t", " ", "d", "o", "w", "n", " ", "i", "n", " ", "s",
                  "i", "m", "p", "l", "e", " ", "t", "e", "r", "m", "s", " ",
                  "f", "o", "r", " ", "b", "e", "t", "t", "e", "r", " ", "u",
                  "n", "d", "e", "r", "s", "t", "a", "n", "d", "i", "n", "g",
                  ".">>],
      [task |-> <<"c", "o", "m", "p", "l", "e", "x", "_", "r", "e", "a", "s",
                  "o", "n", "i", "n", "g">>,
       text |-> <<"T", "h", "i", "s", " ", "i", "s", " ", "a", "n", " ", "i",
                  "n", "t", "e", "r", "e", "s", "t", "i", "n", "g", " ", "q",
                  "u", "e", "s", "t", "i", "o", "n", " ", "t", "h", "a", "t",
                  " ", "r", "e", "q", "u", "i", "r", "e", "s", " ", "c", "a",
                  "r", "e", "f", "u", "l", " ", "a", "n", "a", "l", "y", "s",
                  "i", "s", ".", " ", "L", "e", "t", " ", "m", "e", " ", "w",
                  "a", "l", "k", " ", "t", "h", "r", "o", "u", "g", "h", " ",
                  "t", "h", "e", " ", "r", "e", "a", "s", "o", "n", "i", "n",
                  "g", " ", "s", "t", "e", "p", " ", "b", "y", " ", "s", "t",
                  "e", "p", ",", " ", "c", "o", "n", "s", "i", "d", "e", "r",
                  "i", "n", "g", " ", "m", "u", "l", "t", "i", "p", "l", "e",
                  " ", "p", "e", "r", "s", "p", "e", "c", "t", "i", "v", "e",
                  "s", " ", "a", "n", "d", " ", "e", "x", "a", "m", "i", "n",
                  "i", "n", "g", " ", "t", "h", "e", " ", "u", "n", "d", "e",
                  "r", "l", "y", "i", "n", "g", " ", "p", "r", "i", "n", "c",
                  "i", "p", "l", "e", "s", ".">>],
      [task |-> <<"c", "o", "d", "e", "_", "g", "e", "n", "e", "r", "a", "t",
                  "i", "o", "n">>,
       text |-> <<"H", "e", "r", "e", "'", "s", " ", "h", "o", "w", " ", "w",
                  "e", " ", "c", "a", "n", " ", "a", "p", "p", "r", "o", "a",
                  "c", "h", " ", "t", "h", "i", "s", " ", "p", "r", "o", "g",
                  "r", "a", "m", "m", "i", "n", "g", " ", "p", "r", "o", "b",
                  "l", "e", "m", ":", "\n", "\n", "`", "`", "`", "p", "y", "t",
                  "h", "o", "n", "\n", "#", " ", "T", "h", "i", "s", " ", "i",
                  "s", " ", "a", " ", "s", "a", "m", "p", "l", "e", " ", "c",
                  "o", "d", "e", " ", "s", "t", "r", "u", "c", "t", "u", "r",
                  "e", "\n", "#", " ", "W", "e", " ", "w", "o", "u", "l", "d",
                  " ", "i", "m", "p", "l", "e", "m", "e", "n", "t", " ", "t",
                  "h", "e", " ", "s", "o", "l", "u", "t", "i", "o", "n", " ",
                  "s", "t", "e", "p", " ", "b", "y", " ", "s", "t", "e", "p",
                  "\n", "#", " ", "w", "i", "t", "h", " ", "c", "l", "e", "a",
                  "r", " ", "c", "o", "m", "m", "e", "n", "t", "s", " ", "e",
                  "x", "p", "l", "a", "i", "n", "i", "n", "g", " ", "e", "a",
                  "c", "h", " ", "p", "a", "r", "t", "\n", "`", "`", "`", "\n",
                  "\n", "L", "e", "t", " ", "m", "e", " ", "e", "x", "p", "l",
                  "a", "i", "n", " ", "t", "h", "e", " ", "l", "o", "g", "i",
                  "c", " ", "a", "n", "d", " ", "b", "e", "s", "t", " ", "p",
                  "r", "a", "c", "t", "i", "c", "e", "s", " ", "i", "n", "v",
                  "o", "l", "v", "e", "d", ".">>],
      [task |-> <<"c", "r", "e", "a", "t", "i", "v", "e", "_", "w", "r", "i",
                  "t", "i", "n", "g">>,
       text |-> <<"W", "h", "a", "t", " ", "a", " ", "c", "r", "e", "a", "t",
                  "i", "v", "e", " ", "c", "h", "a", "l", "l", "e", "n", "g",
                  "e", "!", " ", "L", "e", "t", "'", "s", " ", "e", "x", "p",
                  "l", "o", "r", "e", " ", "t", "h", "i", "s", " ", "t", "o",
                  "p", "i", "c", " ", "w", "i", "t", "h", " ", "i", "m", "a",
                  "g", "i", "n", "a", "t", "i", "o", "n", " ", "a", "n", "d",
                  " ", "i", "n", "s", "p", "i", "r", "a", "t", "i", "o", "n",
                  ".", " ", "C", "o", "n", "s", "i", "d", "e", "r", " ", "t",
                  "h", "e", "s", "e", " ", "a", "p", "p", "r", "o", "a", "c",
                  "h", "e", "s", ":", " ", "b", "r", "a", "i", "n", "s", "t",
                  "o", "r", "m", "i", "n", "g", " ", "u", "n", "i", "q", "u",
                  "e", " ", "a", "n", "g", "l", "e", "s", ",", " ", "d", "e",
                  "v", "e", "l", "o", "p", "i", "n", "g", " ", "c", "o", "m",
                  "p", "e", "l", "l", "i", "n", "g", " ", "n", "a", "r", "r",
                  "a", "t", "i", "v", "e", "s", ",", " ", "a", "n", "d", " ",
                  "u", "s", "i", "n", "g", " ", "v", "i", "v", "i", "d", " ",
                  "d", "e", "s", "c", "r", "i", "p", "t", "i", "o", "n", "s",
                  " ", "t", "o", " ", "e", "n", "g", "a", "g", "e", " ", "y",
                  "o", "u", "r", " ", "a", "u", "d", "i", "e", "n", "c", "e",
                  ".">>],
      [task |-> <<"m", "a", "t", "h", "e", "m", "a", "t", "i", "c", "s">>,
       text |-> <<"L", "e", "t", "'", "s", " ", "s", "o", "l", "v", "e", " ",
                  "t", "h", "i", "s", " ", "s", "t", "e", "p", " ", "b", "y",
                  " ", "s", "t", "e", "p", ":", "\n", "\n", "1", ".", " ", "F",
                  "i", "r", "s", "t", ",", " ", "i", "d", "e", "n", "t", "i",
                  "f", "y", " ", "w", "h", "a", "t", " ", "w", "e", "'", "r",
                  "e", " ", "l", "o", "o", "k", "i", "n", "g", " ", "f", "o",
                  "r", "\n", "2", ".", " ", "A", "p", "p", "l", "y", " ", "t",
                  "h", "e", " ", "r", "e", "l", "e", "v", "a", "n", "t", " ",
                  "m", "a", "t", "h", "e", "m", "a", "t", "i", "c", "a", "l",
                  " ", "p", "r", "i", "n", "c", "i", "p", "l", "e", "s", "\n",
                  "3", ".", " ", "W", "o", "r", "k", " ", "t", "h", "r", "o",
                  "u", "g", "h", " ", "t", "h", "e", " ", "c", "a", "l", "c",
                  "u", "l", "a", "t", "i", "o", "n", "s", " ", "s", "y", "s",
                  "t", "e", "m", "a", "t", "i", "c", "a", "l", "l", "y", "\n",
                  "4", ".", " ", "V", "e", "r", "i", "f", "y", " ", "o", "u",
                  "r", " ", "a", "n", "s", "w", "e", "r", " ", "m", "a", "k",
                  "e", "s", " ", "s", "e", "n", "s", "e", "\n", "\n", "M", "a",
                  "t", "h", "e", "m", "a", "t", "i", "c", "s", " ", "i", "s",
                  " ", "a", "b", "o", "u", "t", " ", "l", "o", "g", "i", "c",
                  "a", "l", " ", "p", "r", "o", "g", "r", "e", "s", "s", "i",
                  "o", "n", " ", "a", "n", "d", " ", "c", "l", "e", "a", "r",
                  " ", "r", "e", "a", "s", "o", "n", "i", "n", "g", ".">>]
    >>

\* base_prompt of LLMRouter._prepare_educational_prompt
base_prompt(query) ==
    <<"Y", "o", "u", " ", "a", "r", "e", " ", "a", " ", "h", "e", "l", "p",
      "f", "u", "l", " ", "s", "t", "u", "d", "y", " ", "b", "u", "d", "d",
      "y", " ", "a", "s", "s", "i", "s", "t", "a", "n", "t", ".", " ", "T",
      "h", "e", " ", "s", "t", "u", "d", "e", "n", "t", " ", "i", "s", " ",
      "a", "s", "k", "i", "n", "g", " ", "a", "b", "o", "u", "t", " ">>
    \o query.subject
    \o <<" ", "a", "t", " ", "a", " ">>
    \o query.difficulty
    \o <<" ", "l", "e", "v", "e", "l", ".", "\n", "\n", "S", "t", "u", "d", "e",
      "n", "t", "'", "s", " ", "q", "u", "e", "s", "t", "i", "o", "n", ":",
      " ">>
    \o query.query
    \o <<"\n", "\n", "P", "l", "e", "a", "s", "e", " ", "p", "r", "o", "v", "i",
      "d", "e", " ", "a", " ", "c", "l", "e", "a", "r", ",", " ", "e", "d",
      "u", "c", "a", "t", "i", "o", "n", "a", "l", " ", "r", "e", "s", "p",
      "o", "n", "s", "e", " ", "t", "h", "a", "t", ":", "\n", "1", ".", " ",
      "D", "i", "r", "e", "c", "t", "l", "y", " ", "a", "n", "s", "w", "e",
      "r", "s", " ", "t", "h", "e", " ", "q", "u", "e", "s", "t", "i", "o",
      "n", "\n", "2", ".", " ", "E", "x", "p", "l", "a", "i", "n", "s", " ",
      "c", "o", "n", "c", "e", "p", "t", "s", " ", "i", "n", " ", "a", "n",
      " ", "a", "g", "e", "-", "a", "p", "p", "r", "o", "p", "r", "i", "a",
      "t", "e", " ", "w", "a", "y", " ", "f", "o", "r", " ">>
    \o query.difficulty
    \o <<" ", "l", "e", "v", "e", "l", "\n", "3", ".", " ", "P", "r", "o", "v",
      "i", "d", "e", "s", " ", "e", "x", "a", "m", "p", "l", "e", "s", " ",
      "w", "h", "e", "n", " ", "h", "e", "l", "p", "f", "u", "l", "\n", "4",
      ".", " ", "E", "n", "c", "o", "u", "r", "a", "g", "e", "s", " ", "f",
      "u", "r", "t", "h", "e", "r", " ", "l", "e", "a", "r", "n", "i", "n",
      "g", "\n", "\n">>

\* the task-specific instructions of _prepare_educational_prompt
task_instructions ==
    <<
      [task |-> <<"s", "i", "m", "p", "l", "e", "_", "q", "a">>,
       text |-> <<"K", "e", "e", "p", " ", "y", "o", "u", "r", " ", "a", "n",
                  "s", "w", "e", "r", " ", "c", "o", "n", "c", "i", "s", "e",
                  " ", "b", "u", "t", " ", "c", "o", "m", "p", "l", "e", "t",
                  "e", ".", " ", "F", "o", "c", "u", "s", " ", "o", "n", " ",
                  "t", "h", "e", " ", "k", "e", "y", " ", "f", "a", "c", "t",
                  "s", " ", "a", "n", "d", " ", "d", "e", "f", "i", "n", "i",
                  "t", "i", "o", "n", "s", ".">>],
      [task |-> <<"c", "o", "m", "p", "l", "e", "x", "_", "r", "e", "a", "s",
                  "o", "n", "i", "n", "g">>,
       text |-> <<"B", "r", "e", "a", "k", " ", "d", "o", "w", "n", " ", "y",
                  "o", "u", "r", " ", "r", "e", "a", "s", "o", "n", "i", "n",
                  "g", " ", "s", "t", "e", "p", " ", "b", "y", " ", "s", "t",
                  "e", "p", ".", " ", "H", "e", "l", "p", " ", "t", "h", "e",
                  " ", "s", "t", "u", "d", "e", "n", "t", " ", "u", "n", "d",
                  "e", "r", "s", "t", "a", "n", "d", " ", "t", "h", "e", " ",
                  "'", "w", "h", "y", "'", " ", "b", "e", "h", "i", "n", "d",
                  " ", "t", "h", "e", " ", "a", "n", "s", "w", "e", "r", ".",
                  " ", "U", "s", "e", " ", "l", "o", "g", "i", "c", "a", "l",
                  " ", "p", "r", "o", "g", "r", "e", "s", "s", "i", "o", "n",
                  ".">>],
      [task |-> <<"c", "o", "d", "e", "_", "g", "e", "n", "e", "r", "a", "t",
                  "i", "o", "n">>,
       text |-> <<"P", "r", "o", "v", "i", "d", "e", " ", "w", "o", "r", "k",
                  "i", "n", "g", " ", "c", "o", "d", "e", " ", "w", "i", "t",
                  "h", " ", "c", "l", "e", "a", "r", " ", "c", "o", "m", "m",
                  "e", "n", "t", "s", ".", " ", "E", "x", "p", "l", "a", "i",
                  "n", " ", "w", "h", "a", "t", " ", "e", "a", "c", "h", " ",
                  "p", "a", "r", "t", " ", "d", "o", "e", "s", " ", "a", "n",
                  "d", " ", "w", "h", "y", ".", " ", "I", "n", "c", "l", "u",
                  "d", "e", " ", "b", "e", "s", "t", " ", "p", "r", "a", "c",
                  "t", "i", "c", "e", "s", ".">>],
      [task |-> <<"c", "r", "e", "a", "t", "i", "v", "e", "_", "w", "r", "i",
                  "t", "i", "n", "g">>,
       text |-> <<"B", "e", " ", "c", "r", "e", "a", "t", "i", "v", "e", " ",
                  "a", "n", "d", " ", "i", "n", "s", "p", "i", "r", "i", "n",
                  "g", ".", " ", "P", "r", "o", "v", "i", "d", "e", " ", "c",
                  "o", "n", "c", "r", "e", "t", "e", " ", "e", "x", "a", "m",
                  "p", "l", "e", "s", " ", "a", "n", "d", " ", "t", "e", "c",
                  "h", "n", "i", "q", "u", "e", "s", ".", " ", "E", "n", "c",
                  "o", "u", "r", "a", "g", "e", " ", "i", "m", "a", "g", "i",
                  "n", "a", "t", "i", "o", "n", ".">>],
      [task |-> <<"m", "a", "t", "h", "e", "m", "a", "t", "i", "c", "s">>,
       text |-> <<"S", "h", "o", "w", " ", "y", "o", "u", "r", " ", "w", "o",
                  "r", "k", " ", "s", "t", "e", "p", " ", "b", "y", " ", "s",
                  "t", "e", "p", ".", " ", "E", "x", "p", "l", "a", "i", "n",
                  " ", "e", "a", "c", "h", " ", "m", "a", "t", "h", "e", "m",
                  "a", "t", "i", "c", "a", "l", " ", "o", "p", "e", "r", "a",
                  "t", "i", "o", "n", " ", "c", "l", "e", "a", "r", "l", "y",
                  ".", " ", "V", "e", "r", "i", "f", "y", " ", "y", "o", "u",
                  "r", " ", "a", "n", "s", "w", "e", "r", ".">>]
    >>

\* the default of fallbacks.get(task_type, ...)
default_fallback ==
    <<"I", "'", "m", " ", "h", "e", "r", "e", " ", "t", "o", " ", "h", "e",
      "l", "p", " ", "y", "o", "u", " ", "l", "e", "a", "r", "n", "!", " ",
      "L", "e", "t", " ", "m", "e", " ", "p", "r", "o", "v", "i", "d", "e",
      " ", "a", " ", "t", "h", "o", "u", "g", "h", "t", "f", "u", "l", " ",
      "r", "e", "s", "p", "o", "n", "s", "e", " ", "t", "o", " ", "y", "o",
      "u", "r", " ", "q", "u", "e", "s", "t", "i", "o", "n", ".">>

\* what _make_nvidia_request returns for an empty completion
no_response_text ==
    <<"I", " ", "a", "p", "o", "l", "o", "g", "i", "z", "e", ",", " ", "b",
      "u", "t", " ", "I", " ", "c", "o", "u", "l", "d", "n", "'", "t", " ",
      "g", "e", "n", "e", "r", "a", "t", "e", " ", "a", " ", "r", "e", "s",
      "p", "o", "n", "s", "e", ".">>

\* str.strip() of Python: every kind of whitespace goes
RECURSIVE LStripWhitespace(_)
LStripWhitespace(s) ==
    IF s # <<>> /\ Head(s) \in Whitespace THEN LStripWhitespace(Tail(s)) ELSE s

RECURSIVE RStripWhitespace(_)
RStripWhitespace(s) ==
    IF s # <<>> /\ s[Len(s)] \in Whitespace
    THEN RStripWhitespace(SubSeq(s, 1, Len(s) - 1))
    ELSE s

StripWhitespace(s) == RStripWhitespace(LStripWhitespace(s))

\* max(scores.items(), key=lambda x: x[1])[0] over the rows that score at
\* all: the position of the first row of the highest score, 0 if none scores
BestScored(rows, query_lower) ==
    LET score(i) == SubjectScore(rows[i].patterns, query_lower)
        scored == {i \in 1..Len(rows) : score(i) > 0}
    IN IF scored = {} THEN 0
       ELSE CHOOSE i \in scored :
                /\ \A j \in scored : score(j) <= score(i)
                /\ \A j \in scored : j < i => score(j) < score(i)

complex_reasoning == TASK_PATTERNS[2].category

\* TaskClassifier.classify_query
classify_query(query) ==
    LET i == BestScored(TASK_PATTERNS, Lower(query))
    IN IF i = 0 THEN complex_reasoning ELSE TASK_PATTERNS[i].category

\* TaskClassifier.detect_subject
TaskClassifier_detect_subject(query) ==
    LET i == BestScored(SUBJECT_PATTERNS, Lower(query))
    IN IF i = 0 THEN General ELSE SUBJECT_PATTERNS[i].subject

\* TaskClassifier.detect_difficulty
TaskClassifier_detect_difficulty(query) ==
    LET query_lower == Lower(query)
        i == BestScored(DIFFICULTY_PATTERNS, query_lower)
        word_count == WordCount(query)
        has_complexity == AnyTermIn(complexity_indicators, query_lower)
    IN IF i # 0 THEN DIFFICULTY_PATTERNS[i].difficulty
       ELSE IF word_count < 5 THEN DIFFICULTY_PATTERNS[1].difficulty
       ELSE IF word_count < 10 /\ ~has_complexity THEN DIFFICULTY_PATTERNS[2].difficulty
       ELSE IF word_count < 15 \/ ~has_complexity THEN DIFFICULTY_PATTERNS[3].difficulty
       ELSE IF has_complexity THEN DIFFICULTY_PATTERNS[4].difficulty
       ELSE DIFFICULTY_PATTERNS[3].difficulty

\* rows[task_type].text, or default
TextFor(rows, task_type, default) ==
    IF \E i \in 1..Len(rows) : rows[i].task = task_type
    THEN rows[CHOOSE i \in 1..Len(rows) : rows[i].task = task_type].text
    ELSE default

\* self.MODEL_CONFIGS.get(task_type, self.MODEL_CONFIGS['complex_reasoning'])
ModelConfig(task_type) ==
    IF \E i \in 1..Len(MODEL_CONFIGS) : MODEL_CONFIGS[i].task = task_type
    THEN MODEL_CONFIGS[CHOOSE i \in 1..Len(MODEL_CONFIGS) : MODEL_CONFIGS[i].task = task_type]
    ELSE MODEL_CONFIGS[2]

\* the model names of MODEL_CONFIGS
ConfiguredModels == {MODEL_CONFIGS[i].model : i \in 1..Len(MODEL_CONFIGS)}

\* StudyQuery(...) of process_study_query; the timestamp is not modelled
StudyQuery(user_id, query_text) ==
    [query |-> query_text,
     subject |-> TaskClassifier_detect_subject(query_text),
     difficulty |-> TaskClassifier_detect_difficulty(query_text),
     query_type |-> "",
     timestamp |-> "now",
     user_id |-> user_id]

\* LLMRouter._prepare_educational_prompt
prepare_educational_prompt(query, task_type) ==
    base_prompt(query) \o TextFor(task_instructions, task_type, <<>>)

\* LLMRouter._generate_fallback_response_by_type
generate_fallback_response_by_type(task_type) ==
    TextFor(fallbacks, task_type, default_fallback)

\* LLMRouter._generate_fallback_response
generate_fallback_response(query, task_type) ==
    <<"R", "e", "g", "a", "r", "d", "i", "n", "g", " ", "y", "o", "u", "r", " ">>
    \o query.subject
    \o <<" ", "q", "u", "e", "s", "t", "i", "o", "n", " ", "a", "t", " ", "t", "h", "e", " ">>
    \o query.difficulty
    \o <<" ", "l", "e", "v", "e", "l", ":", " ">>
    \o generate_fallback_response_by_type(task_type)

\* LLMRouter._estimate_cost, in ten-thousandths
estimate_cost(response, model_config) ==
    (Len(response) \div 4) * model_config.cost_per_token

\* the POST of _make_nvidia_request
NvidiaRequest(api_key, base_url, prompt, model_config) ==
    [url |-> <<base_url, "/v1/chat/completions">>,
     authorization |-> <<"Bearer", api_key>>,
     json |-> [model |-> model_config.model,
               messages |-> << [role |-> User, content |-> prompt] >>,
               temperature |-> model_config.temperature,
               max_tokens |-> model_config.max_tokens,
               top_p |-> 1,
               frequency_penalty |-> 0,
               presence_penalty |-> 0]]

\* what the POST comes to: requests.post raised, or a response
ApiRaised(e) == [raised |-> TRUE, exc |-> e, status_code |-> 0, contents |-> <<>>]
ApiResponse(status_code, contents) ==
    [raised |-> FALSE, exc |-> "", status_code |-> status_code, contents |-> contents]

\* the API catalog is unreachable, refuses the key, is overloaded, answers
\* without a completion, or completes: with text, with text in whitespace,
\* with the empty string, with null.  contents is the list of the
\* message.content values of response_json['choices']
ApiOutcomes ==
    {ApiRaised("ConnectionError"),
     ApiResponse(401, <<>>),
     ApiResponse(200, <<>>),
     ApiResponse(200, <<<<"4", "2">>>>),
     ApiResponse(200, <<<<" ", "s", "e", "v", "e", "n", " ", "i", "s", "\n">>>>),
     ApiResponse(200, <<EmptyStr>>),
     ApiResponse(200, <<NoneVal>>)}

\* response.raise_for_status() passes and the completion is there
ApiSucceeded(outcome) ==
    /\ ~outcome.raised
    /\ outcome.status_code < 400
    /\ outcome.contents # <<>>

\* LLMRouter._make_nvidia_request from the return of requests.post; every
\* exception of the try block ends in the fallback text
make_nvidia_request(outcome, task_type) ==
    IF ~ApiSucceeded(outcome) THEN generate_fallback_response_by_type(task_type)
    ELSE LET response_text == outcome.contents[1]
         IN IF response_text = NoneVal \/ response_text = EmptyStr
            THEN no_response_text
            ELSE StripWhitespace(response_text)

\* StudyResponse(...); cost in ten-thousandths, confidence in tenths
StudyResponse(response, model_used, cost, confidence) ==
    [response |-> response, model_used |-> model_used, cost |-> cost,
     response_time |-> "elapsed", confidence |-> confidence]

\* LLMRouter.route_query from the return of _make_nvidia_request with text,
\* or from its raising
route_query(query, text, raised) ==
    LET task_type == classify_query(query.query)
        model_config == ModelConfig(task_type)
    IN IF raised
       THEN StudyResponse(generate_fallback_response(query, task_type), "fallback", 0, 5)
       ELSE StudyResponse(text, model_config.model, estimate_cost(text, model_config), 9)

(***************************************************************************)
(* State.                                                                  *)
(***************************************************************************)
VARIABLES
    config,             \* NVIDIALLMRouterCore.config, the registry
    classifier_up,      \* whether the classification service is reachable
    workload,           \* which callers there are: "routing", "text", "pair", ...
    prev,               \* pair callers: what the first request of a pair did
    edu_call,           \* process_educational_query in progress: its arguments
    edu_result,         \* what process_educational_query returned
    other,              \* a second route_request call in flight on the same router
    api_key,            \* LLMRouter.api_key of the study buddy application
    user_sessions,      \* StudyBuddyService.user_sessions: user id -> session object
    heap,               \* the session dicts ever created, by object identity
    threads,            \* the request threads of the web server: their locals
    asked,              \* per user: the calls of process_study_query that returned
    stats,              \* what get_user_stats returned last
    pc,                 \* where route_request stands
    request_body,       \* the caller's dict
    nim_params,         \* locals of route_request ...
    policy,
    messages,
    text_input,
    triton_text,
    model_index,
    chosen_llm,
    chosen_classifier,
    cleaned_body,
    final_body,
    triton_calls,       \* the POSTs made to the classification service
    triton_response,    \* what it answered
    llm_calls,          \* the POSTs made to backends
    llm_response,       \* what the backend answered
    err,                \* the exception route_request raised
    result              \* the tuple route_request returned

study == <<api_key, user_sessions, heap, threads, asked, stats>>
caller == <<workload, prev, edu_call, edu_result, other, study>>
env == <<config, classifier_up, caller>>
locals == <<nim_params, policy, messages, text_input, triton_text, model_index,
            chosen_llm, chosen_classifier, cleaned_body, final_body>>
network == <<triton_calls, triton_response, llm_calls, llm_response>>
vars == <<env, pc, request_body, locals, network, err, result>>

NoResult == [response_data |-> EmptyDict, chosen_model |-> "", chosen_classifier |-> NoneVal]

(***************************************************************************)
(* route_request as a function of what one call sees: its argument, the    *)
(* registry and the answers to its own two POSTs.  Each operator is the    *)
(* code between two of the call's suspension points.                       *)
(***************************************************************************)

\* a call that has not begun: its locals, its calls and its outcome
OtherIdle ==
    [pc |-> "IDLE", request_body |-> Unset, policy |-> Unset, threshold |-> -1,
     model_index |-> -1, chosen_llm |-> Unset, chosen_classifier |-> UnsetStr,
     final_body |-> Unset, triton_calls |-> <<>>, triton_response |-> Unset,
     llm_calls |-> <<>>, llm_response |-> Unset, err |-> NoErr, result |-> NoResult]

\* raise Exception(...)
RouteRaised(r, e) == [r EXCEPT !.pc = "FAILED", !.err = e]

\* Steps 5 to 7, up to the POST to the chosen LLM
RouteProxy(r, i) ==
    LET llm == get_llm_by_index(r.policy, i)
    IN IF llm = NoneRec
       THEN [RouteRaised(r, Exc(LlmNotFoundMsg)) EXCEPT !.model_index = i,
                                                         !.chosen_llm = NoneRec]
       ELSE LET body == modify_model_in_request(
                            remove_nim_llm_router_params(r.request_body), llm.model)
            IN [r EXCEPT !.pc = "AWAIT_LLM",
                         !.model_index = i,
                         !.chosen_llm = llm,
                         !.chosen_classifier = get_llm_name_by_index(r.policy, i),
                         !.final_body = body,
                         !.llm_calls = <<[url |-> <<llm.api_base, "/v1/chat/completions">>,
                                          authorization |-> <<"Bearer", llm.api_key>>,
                                          json |-> body,
                                          timeout |-> 60]>>]

\* mutant: a call whose twin is waiting for the classifier waits for the
\* twin's answer instead of sending its own POST
RouteStartCoalesced(cfg, req, twin) ==
    LET nim == extract_nim_llm_router_params(req)
        r0  == [OtherIdle EXCEPT !.request_body = req]
    IN IF nim = NoneRec THEN RouteRaised(r0, Exc(MissingParamsMsg))
       ELSE LET pol == get_policy_by_name(cfg, nim.policy)
                r1  == [r0 EXCEPT !.policy = pol, !.threshold = nim.threshold]
            IN IF pol = NoneRec THEN RouteRaised(r1, Exc(PolicyNotFoundMsg))
               ELSE IF nim.routing_strategy = "MANUAL"
               THEN IF nim.model = NoneVal \/ nim.model = EmptyStr
                    THEN RouteRaised(r1, Exc(NoModelMsg))
                    ELSE LET i == choose_model_manual(pol, nim.model)
                         IN IF i = -1 THEN RouteRaised(r1, Exc(ModelNotFoundMsg))
                            ELSE RouteProxy(r1, i)
               ELSE IF nim.routing_strategy = "TRITON"
               THEN [r1 EXCEPT !.pc = "AWAIT_TRITON",
                               !.triton_calls =
                                   IF twin = req THEN <<>>
                                   ELSE <<[url |-> pol.url,
                                           json |-> TritonRequest(
                                               get_last_message_for_triton(
                                                   extract_messages(req))),
                                           timeout |-> 30]>>]
               ELSE RouteRaised(r1, Exc(NoStrategyMsg))

\* Steps 1 to 4, up to the POST to the classification service (TRITON), or
\* up to the POST to the chosen LLM (MANUAL); twin is the argument of the
\* other call in flight, which route_request never looks at
RouteStart(cfg, req, twin) ==
    LET nim == extract_nim_llm_router_params(req)
        r0  == [OtherIdle EXCEPT !.request_body = req]
    IN IF nim = NoneRec THEN RouteRaised(r0, Exc(MissingParamsMsg))
       ELSE LET pol == get_policy_by_name(cfg, nim.policy)
                r1  == [r0 EXCEPT !.policy = pol, !.threshold = nim.threshold]
            IN IF pol = NoneRec THEN RouteRaised(r1, Exc(PolicyNotFoundMsg))
               ELSE IF nim.routing_strategy = "MANUAL"
               THEN IF nim.model = NoneVal \/ nim.model = EmptyStr
                    THEN RouteRaised(r1, Exc(NoModelMsg))
                    ELSE LET i == choose_model_manual(pol, nim.model)
                         IN IF i = -1 THEN RouteRaised(r1, Exc(ModelNotFoundMsg))
                            ELSE RouteProxy(r1, i)
               ELSE IF nim.routing_strategy = "TRITON"
               THEN [r1 EXCEPT !.pc = "AWAIT_TRITON",
                               !.triton_calls =
                                   <<[url |-> pol.url,
                                      json |-> TritonRequest(
                                          get_last_message_for_triton(
                                              extract_messages(req))),
                                      timeout |-> 30]>>]
               ELSE RouteRaised(r1, Exc(NoStrategyMsg))

\* the rest of choose_model_with_triton once its POST has returned, and on
\* to the POST to the chosen LLM
RouteClassified(r, response) ==
    LET r1 == [r EXCEPT !.triton_response = response]
    IN IF ~ResponseOk(response) THEN RouteRaised(r1, HttpExc(TritonErrorMsg, response))
       ELSE IF ~Has(response.json, "outputs") \/ response.json["outputs"] = <<>>
       THEN RouteRaised(r1, Exc(NoOutputsMsg))
       ELSE LET probabilities == response.json["outputs"][1].data
            IN IF probabilities = <<>> THEN RouteRaised(r1, Exc(EmptyMaxMsg))
               ELSE RouteProxy(r1, choose_model_index(probabilities, r.threshold))

\* route_request once the POST to the chosen LLM has returned
RouteAnswered(r, response) ==
    LET r1 == [r EXCEPT !.llm_response = response]
    IN IF ~ResponseOk(response) THEN RouteRaised(r1, HttpExc(LlmErrorMsg, response))
       ELSE [r1 EXCEPT !.pc = "DONE",
                       !.result = [response_data |-> response.json,
                                   chosen_model |-> r.chosen_llm.model,
                                   chosen_classifier |-> r.chosen_classifier]]

\* the study buddy application right after StudyBuddyService() without an
\* API key
ThreadIds == {1, 2}

Users == {"user_1", "user_2"}

ThreadIdle ==
    [pc |-> "IDLE", user_id |-> "", study_query |-> NoneRec, post |-> NoneRec,
     api |-> NoneRec, response |-> NoneRec, session |-> 0, total_cost |-> 0,
     result |-> NoneRec]

NotAsked == [calls |-> 0, cost |-> 0]

StudyFresh ==
    /\ api_key = ""
    /\ user_sessions = EmptyDict
    /\ heap = <<>>
    /\ threads = [t \in ThreadIds |-> ThreadIdle]
    /\ asked = [u \in Users |-> NotAsked]
    /\ stats = NoneRec

\* nothing of a request is in progress
Fresh ==
    /\ request_body = Unset
    /\ nim_params = Unset
    /\ policy = Unset
    /\ messages = Unset
    /\ text_input = UnsetStr
    /\ triton_text = UnsetStr
    /\ model_index = -1
    /\ chosen_llm = Unset
    /\ chosen_classifier = UnsetStr
    /\ cleaned_body = Unset
    /\ final_body = Unset
    /\ triton_calls = <<>>
    /\ triton_response = Unset
    /\ llm_calls = <<>>
    /\ llm_response = Unset
    /\ err = NoErr
    /\ result = NoResult

Init ==
    /\ config = DefaultConfig
    /\ classifier_up \in BOOLEAN
    /\ workload = "routing"
    /\ prev = NoneRec
    /\ edu_call = NoneRec
    /\ edu_result = NoneRec
    /\ other = OtherIdle
    /\ StudyFresh
    /\ pc = "IDLE"
    /\ Fresh

\* the same service, with callers that send long conversations
InitText ==
    /\ config = DefaultConfig
    /\ classifier_up \in BOOLEAN
    /\ workload = "text"
    /\ prev = NoneRec
    /\ edu_call = NoneRec
    /\ edu_result = NoneRec
    /\ other = OtherIdle
    /\ StudyFresh
    /\ pc = "IDLE"
    /\ Fresh

\* the same service, called through process_educational_query as well
InitEdu ==
    /\ config = DefaultConfig
    /\ classifier_up \in BOOLEAN
    /\ workload = "edu"
    /\ prev = NoneRec
    /\ edu_call = NoneRec
    /\ edu_result = NoneRec
    /\ other = OtherIdle
    /\ StudyFresh
    /\ pc = "IDLE"
    /\ Fresh

\* before construction: the registry is still to be loaded from a file
InitLoad ==
    /\ config = Unset
    /\ classifier_up \in BOOLEAN
    /\ workload = "load"
    /\ prev = NoneRec
    /\ edu_call = NoneRec
    /\ edu_result = NoneRec
    /\ other = OtherIdle
    /\ StudyFresh
    /\ pc = "START"
    /\ Fresh

\* the same service, with callers that send a request and then the same
\* request with another threshold
InitPair ==
    /\ config = DefaultConfig
    /\ classifier_up \in BOOLEAN
    /\ workload = "pair"
    /\ prev = NoneRec
    /\ edu_call = NoneRec
    /\ edu_result = NoneRec
    /\ other = OtherIdle
    /\ StudyFresh
    /\ pc = "IDLE"
    /\ Fresh

\* raise Exception(...): route_request ends, nothing else changes
KeyErrorMsg == "KeyError"

\* NVIDIARouterService.__init__ with a config_path: RouterConfig.load_config
\* builds the registry or raises
LoadConfig ==
    /\ pc = "START"
    /\ \E config_data \in ConfigInputs :
          LET loaded == load_config(config_data)
          IN IF loaded.ok
             THEN /\ config' = loaded.value
                  /\ pc' = "IDLE"
                  /\ err' = err
             ELSE /\ config' = config
                  /\ pc' = "LOAD_FAILED"
                  /\ err' = [msg |-> KeyErrorMsg, status_code |-> 0, text |-> loaded.key]
    /\ UNCHANGED <<classifier_up, caller, request_body, locals, network, result>>

\* mutant: an error sends the request back to its first stage
RaiseAndRestart(e) ==
    /\ err' = e
    /\ pc' = "PARSE_DIRECTIVE"

\* raise Exception(...): route_request is left, nothing catches inside it
Raise(e) ==
    /\ err' = e
    /\ pc' = "FAILED"

(***************************************************************************)
(* route_request, step by step.                                            *)
(***************************************************************************)
\* a caller invokes route_request(request_body)
Receive ==
    /\ pc = "IDLE"
    /\ \E req \in Requests(workload) :
          /\ IF prev = NoneRec THEN TRUE
             ELSE SameButThreshold(req, prev.request_body)
          /\ request_body' = req
    /\ pc' = "PARSE_DIRECTIVE"
    /\ UNCHANGED <<env, locals, network, err, result>>

\* mutant: the strategy is validated before the directive is looked at
ParseDirectiveStrategyFirst ==
    /\ pc = "PARSE_DIRECTIVE"
    /\ nim_params' = extract_nim_llm_router_params(request_body)
    /\ IF StrategyOf(Get(request_body, NimKey, EmptyDict)) = "None"
       THEN Raise(Exc(NoStrategyMsg))
       ELSE IF nim_params' = NoneRec
       THEN Raise(Exc(MissingParamsMsg))
       ELSE pc' = "RESOLVE_POLICY" /\ err' = err
    /\ UNCHANGED <<env, request_body, policy, messages, text_input, triton_text, model_index,
                   chosen_llm, chosen_classifier, cleaned_body, final_body,
                   network, result>>

\* Step 1: extract nim-llm-router parameters
ParseDirective ==
    /\ pc = "PARSE_DIRECTIVE"
    /\ nim_params' = extract_nim_llm_router_params(request_body)
    /\ IF nim_params' = NoneRec
       THEN Raise(Exc(MissingParamsMsg))
       ELSE pc' = "RESOLVE_POLICY" /\ err' = err
    /\ UNCHANGED <<env, request_body, policy, messages, text_input, triton_text, model_index,
                   chosen_llm, chosen_classifier, cleaned_body, final_body,
                   network, result>>

\* Step 2: get policy; Step 3: extract messages and prepare text input
ResolvePolicy ==
    /\ pc = "RESOLVE_POLICY"
    /\ policy' = get_policy_by_name(config, nim_params.policy)
    /\ IF policy' = NoneRec
       THEN Raise(Exc(PolicyNotFoundMsg)) /\ UNCHANGED <<messages, text_input>>
       ELSE /\ messages' = extract_messages(request_body)
            /\ text_input' = convert_messages_to_text_input(messages')
            /\ pc' = "SELECT_BACKEND"
            /\ err' = err
    /\ UNCHANGED <<env, request_body, nim_params, triton_text, model_index,
                   chosen_llm, chosen_classifier, cleaned_body, final_body,
                   network, result>>

\* Step 4, routing_strategy == MANUAL
SelectManual ==
    /\ pc = "SELECT_BACKEND"
    /\ nim_params.routing_strategy = "MANUAL"
    /\ IF nim_params.model = NoneVal \/ nim_params.model = EmptyStr
       THEN Raise(Exc(NoModelMsg)) /\ model_index' = model_index
       ELSE LET i == choose_model_manual(policy, nim_params.model)
            IN IF i = -1
               THEN Raise(Exc(ModelNotFoundMsg)) /\ model_index' = model_index
               ELSE model_index' = i /\ pc' = "GET_LLM" /\ err' = err
    /\ UNCHANGED <<env, request_body, nim_params, policy, messages, text_input, triton_text,
                   chosen_llm, chosen_classifier, cleaned_body, final_body,
                   network, result>>

\* Step 4, routing_strategy == TRITON: choose_model_with_triton up to its POST
SendTriton ==
    /\ pc = "SELECT_BACKEND"
    /\ nim_params.routing_strategy = "TRITON"
    /\ triton_text' = get_last_message_for_triton(messages)
    /\ triton_calls' = Append(triton_calls,
                              [url |-> policy.url,
                               json |-> TritonRequest(triton_text'),
                               timeout |-> 30])
    /\ pc' = "AWAIT_TRITON"
    /\ UNCHANGED <<env, request_body, nim_params, policy, messages, text_input, model_index,
                   chosen_llm, chosen_classifier, cleaned_body, final_body,
                   triton_response, llm_calls, llm_response, err, result>>

\* Step 4, neither strategy
NoStrategy ==
    /\ pc = "SELECT_BACKEND"
    /\ nim_params.routing_strategy \notin {"MANUAL", "TRITON"}
    /\ Raise(Exc(NoStrategyMsg))
    /\ UNCHANGED <<env, request_body, locals, network, result>>

\* mutant: a POST that raised is sent once more
TritonRetries ==
    /\ pc = "AWAIT_TRITON"
    /\ Len(triton_calls) < 2
    /\ triton_calls' = Append(triton_calls, triton_calls[1])
    /\ UNCHANGED <<env, pc, request_body, locals, triton_response, llm_calls,
                   llm_response, err, result>>

\* the POST to the classification service raises
TritonRaises ==
    /\ pc = "AWAIT_TRITON"
    /\ \E e \in NetworkErrors :
          /\ classifier_up \/ e = "ConnectionError"
          /\ Raise(Exc(e))
    /\ UNCHANGED <<env, request_body, locals, network, result>>

\* the POST to the classification service returns: the rest of
\* choose_model_with_triton
TritonReturns ==
    /\ pc = "AWAIT_TRITON"
    /\ classifier_up
    /\ \E response \in TritonResponses :
          /\ triton_response' = response
          /\ IF ~ResponseOk(response)
             THEN Raise(HttpExc(TritonErrorMsg, response)) /\ model_index' = model_index
             ELSE IF ~Has(response.json, "outputs") \/ response.json["outputs"] = <<>>
             THEN Raise(Exc(NoOutputsMsg)) /\ model_index' = model_index
             ELSE LET probabilities == response.json["outputs"][1].data
                  IN IF probabilities = <<>>
                     THEN Raise(Exc(EmptyMaxMsg)) /\ model_index' = model_index
                     ELSE /\ model_index' = choose_model_index(probabilities,
                                                              nim_params.threshold)
                          /\ pc' = "GET_LLM"
                          /\ err' = err
    /\ UNCHANGED <<env, request_body, nim_params, policy, messages, text_input, triton_text,
                   chosen_llm, chosen_classifier, cleaned_body, final_body,
                   triton_calls, llm_calls, llm_response, result>>

\* mutant: the chosen backend is taken out of the registry's policy
GetLlmPopsBackend ==
    /\ pc = "GET_LLM"
    /\ chosen_llm' = get_llm_by_index(policy, model_index)
    /\ IF chosen_llm' = NoneRec
       THEN /\ Raise(Exc(LlmNotFoundMsg))
            /\ UNCHANGED <<chosen_classifier, config>>
       ELSE /\ chosen_classifier' = get_llm_name_by_index(policy, model_index)
            /\ config' = [policies |->
                  [i \in 1..Len(config.policies) |->
                      IF config.policies[i] = policy
                      THEN [policy EXCEPT !.llms =
                              [k \in 1..(Len(policy.llms) - 1) |->
                                  IF k <= model_index THEN policy.llms[k]
                                  ELSE policy.llms[k + 1]]]
                      ELSE config.policies[i]]]
            /\ pc' = "REWRITE_REQUEST"
            /\ err' = err
    /\ UNCHANGED <<classifier_up, caller, request_body, nim_params, policy, messages,
                   text_input, triton_text, model_index, cleaned_body, final_body,
                   network, result>>

\* Step 5: get chosen LLM
GetLlm ==
    /\ pc = "GET_LLM"
    /\ chosen_llm' = get_llm_by_index(policy, model_index)
    /\ IF chosen_llm' = NoneRec
       THEN Raise(Exc(LlmNotFoundMsg)) /\ chosen_classifier' = chosen_classifier
       ELSE /\ chosen_classifier' = get_llm_name_by_index(policy, model_index)
            /\ pc' = "REWRITE_REQUEST"
            /\ err' = err
    /\ UNCHANGED <<env, request_body, nim_params, policy, messages, text_input, triton_text,
                   model_index, cleaned_body, final_body, network, result>>

\* mutant: the block is deleted from, and the model written into, the
\* caller's dict itself
RewriteRequestInPlace ==
    /\ pc = "REWRITE_REQUEST"
    /\ cleaned_body' = remove_nim_llm_router_params(request_body)
    /\ final_body' = modify_model_in_request(cleaned_body', chosen_llm.model)
    /\ request_body' = final_body'
    /\ pc' = "PROXY"
    /\ UNCHANGED <<env, nim_params, policy, messages, text_input, triton_text,
                   model_index, chosen_llm, chosen_classifier, network, err, result>>

\* Step 6: prepare request for downstream LLM
RewriteRequest ==
    /\ pc = "REWRITE_REQUEST"
    /\ cleaned_body' = remove_nim_llm_router_params(request_body)
    /\ final_body' = modify_model_in_request(cleaned_body', chosen_llm.model)
    /\ pc' = "PROXY"
    /\ UNCHANGED <<env, request_body, nim_params, policy, messages, text_input, triton_text,
                   model_index, chosen_llm, chosen_classifier, network, err, result>>

\* mutant: the POST carries the credential of the policy's first backend
SendLlmFirstKey ==
    /\ pc = "PROXY"
    /\ llm_calls' = Append(llm_calls,
                           [url |-> <<chosen_llm.api_base, "/v1/chat/completions">>,
                            authorization |-> <<"Bearer", policy.llms[1].api_key>>,
                            json |-> final_body,
                            timeout |-> 60])
    /\ pc' = "AWAIT_LLM"
    /\ UNCHANGED <<env, request_body, locals, triton_calls, triton_response,
                   llm_response, err, result>>

\* Step 7: the POST to the chosen LLM
SendLlm ==
    /\ pc = "PROXY"
    /\ llm_calls' = Append(llm_calls,
                           [url |-> <<chosen_llm.api_base, "/v1/chat/completions">>,
                            authorization |-> <<"Bearer", chosen_llm.api_key>>,
                            json |-> final_body,
                            timeout |-> 60])
    /\ pc' = "AWAIT_LLM"
    /\ UNCHANGED <<env, request_body, locals, triton_calls, triton_response,
                   llm_response, err, result>>

\* mutant: a POST to the backend that raised is waited for again
LlmRaisesAndWaits ==
    /\ pc = "AWAIT_LLM"
    /\ \E e \in NetworkErrors : err' = Exc(e)
    /\ UNCHANGED <<env, pc, request_body, locals, network, result>>

\* the POST to the backend raises
LlmRaises ==
    /\ pc = "AWAIT_LLM"
    /\ \E e \in NetworkErrors : Raise(Exc(e))
    /\ UNCHANGED <<env, request_body, locals, network, result>>

\* the POST to the backend returns
LlmReturns ==
    /\ pc = "AWAIT_LLM"
    /\ \E response \in LlmResponses :
          /\ llm_response' = response
          /\ IF ~ResponseOk(response)
             THEN Raise(HttpExc(LlmErrorMsg, response)) /\ result' = result
             ELSE /\ result' = [response_data |-> response.json,
                                chosen_model |-> chosen_llm.model,
                                chosen_classifier |-> chosen_classifier]
                  /\ pc' = "DONE"
                  /\ err' = err
    /\ UNCHANGED <<env, request_body, locals, triton_calls, triton_response, llm_calls>>

\* the caller has the outcome; the next request may come, and the
\* classification service may have come up or gone down meanwhile
Finish ==
    /\ IF edu_call = NoneRec THEN pc \in {"DONE", "FAILED"} ELSE pc = "RETURNED"
    /\ pc' = "IDLE"
    /\ classifier_up' \in BOOLEAN
    /\ edu_call' = NoneRec
    /\ edu_result' = NoneRec
    /\ prev' = IF workload = "pair" /\ prev = NoneRec
               THEN [request_body |-> request_body,
                     triton_response |-> triton_response,
                     model_index |-> model_index,
                     chosen_llm |-> chosen_llm,
                     chosen_classifier |-> chosen_classifier,
                     llm_calls |-> llm_calls]
               ELSE NoneRec
    /\ request_body' = Unset
    /\ nim_params' = Unset
    /\ policy' = Unset
    /\ messages' = Unset
    /\ text_input' = UnsetStr
    /\ triton_text' = UnsetStr
    /\ model_index' = -1
    /\ chosen_llm' = Unset
    /\ chosen_classifier' = UnsetStr
    /\ cleaned_body' = Unset
    /\ final_body' = Unset
    /\ triton_calls' = <<>>
    /\ triton_response' = Unset
    /\ llm_calls' = <<>>
    /\ llm_response' = Unset
    /\ err' = NoErr
    /\ result' = NoResult
    /\ UNCHANGED <<config, workload, other, study>>

\* process_educational_query up to its call of route_request
EduCall ==
    /\ pc = "IDLE"
    /\ \E query \in QueryInputs, policy_name \in EduPolicyInputs,
          routing_strategy \in EduStrategyInputs :
          LET subject == detect_subject(query)
              difficulty == detect_difficulty(query)
          IN /\ edu_call' = [query |-> query, policy |-> policy_name,
                             routing_strategy |-> routing_strategy,
                             subject |-> subject, difficulty |-> difficulty]
             /\ request_body' = EduRequest(query, policy_name, routing_strategy,
                                           subject, difficulty)
    /\ pc' = "PARSE_DIRECTIVE"
    /\ UNCHANGED <<config, classifier_up, workload, prev, edu_result, other, study, locals,
                   network, err, result>>

\* process_educational_query from the return (or raise) of route_request
EduReturn ==
    /\ pc \in {"DONE", "FAILED"}
    /\ edu_call # NoneRec
    /\ edu_result' = EduOutcome(edu_call, pc = "FAILED", err, result)
    /\ pc' = "RETURNED"
    /\ UNCHANGED <<config, classifier_up, workload, prev, edu_call, other, study, request_body,
                   locals, network, err, result>>

Next ==
    \/ Receive
    \/ ParseDirective
    \/ ResolvePolicy
    \/ SelectManual
    \/ SendTriton
    \/ NoStrategy
    \/ TritonRaises
    \/ TritonReturns
    \/ GetLlm
    \/ RewriteRequest
    \/ SendLlm
    \/ LlmRaises
    \/ LlmReturns
    \/ Finish

Spec == Init /\ [][Next]_vars

SpecText == InitText /\ [][Next]_vars

SpecPair == InitPair /\ [][Next]_vars

\* the service with both of its entry points
NextEdu == EduCall \/ EduReturn \/ Next

SpecEdu == InitEdu /\ [][NextEdu]_vars

\* the service from its construction with a configuration file
NextLoad == LoadConfig \/ Next

SpecLoad == InitLoad /\ [][NextLoad]_vars

(***************************************************************************)
(* Two route_request calls in flight on one NVIDIALLMRouterCore, each      *)
(* giving way to the other at its two POSTs.  The second call moves from   *)
(* suspension point to suspension point.                                   *)
(***************************************************************************)

\* what the classification service and the backend answer the second call
OtherTritonResponses ==
    {[status_code |-> 200, text |-> "ok",
      json |-> "outputs" :> << [data |-> d] >>] : d \in {<<1, 0>>, <<0, 1>>, <<0, 0, 1>>}} \cup
    {[status_code |-> 503, text |-> "triton unavailable", json |-> EmptyDict]}

OtherLlmResponses ==
    {[status_code |-> 200, text |-> "ok", json |-> "choices" :> <<Choice("answer one")>>],
     [status_code |-> 500, text |-> "overloaded", json |-> EmptyDict]}

InitTwo ==
    /\ config = DefaultConfig
    /\ classifier_up \in BOOLEAN
    /\ workload = "two"
    /\ prev = NoneRec
    /\ edu_call = NoneRec
    /\ edu_result = NoneRec
    /\ other = OtherIdle
    /\ StudyFresh
    /\ pc = "IDLE"
    /\ Fresh

\* the second call runs from its entry to its first POST
OtherStart ==
    /\ other.pc = "IDLE"
    /\ \E req \in Requests(workload) :
          other' = RouteStart(config, req, request_body)
    /\ UNCHANGED <<config, classifier_up, workload, prev, edu_call, edu_result, study,
                   pc, request_body, locals, network, err, result>>

\* its POST to the classification service raises or returns
OtherClassified ==
    /\ other.pc = "AWAIT_TRITON"
    /\ \/ \E e \in NetworkErrors : other' = RouteRaised(other, Exc(e))
       \/ \E response \in OtherTritonResponses :
             other' = RouteClassified(other, response)
    /\ UNCHANGED <<config, classifier_up, workload, prev, edu_call, edu_result, study,
                   pc, request_body, locals, network, err, result>>

\* its POST to the backend raises or returns
OtherAnswered ==
    /\ other.pc = "AWAIT_LLM"
    /\ \/ \E e \in NetworkErrors : other' = RouteRaised(other, Exc(e))
       \/ \E response \in OtherLlmResponses :
             other' = RouteAnswered(other, response)
    /\ UNCHANGED <<config, classifier_up, workload, prev, edu_call, edu_result, study,
                   pc, request_body, locals, network, err, result>>

\* its caller has the outcome
OtherFinish ==
    /\ other.pc \in {"DONE", "FAILED"}
    /\ other' = OtherIdle
    /\ UNCHANGED <<config, classifier_up, workload, prev, edu_call, edu_result, study,
                   pc, request_body, locals, network, err, result>>

NextTwo == OtherStart \/ OtherClassified \/ OtherAnswered \/ OtherFinish \/ Next

SpecTwo == InitTwo /\ [][NextTwo]_vars

\* the code of route_request between its POSTs runs on once entered
Advance ==
    \/ ParseDirective
    \/ ResolvePolicy
    \/ SelectManual
    \/ SendTriton
    \/ NoStrategy
    \/ GetLlm
    \/ RewriteRequest
    \/ SendLlm

\* self.client.post(..., timeout=30) returns or raises within its timeout
ClassifierCallEnds == TritonRaises \/ TritonReturns

\* self.client.post(..., timeout=60) returns or raises within its timeout
BackendCallEnds == LlmRaises \/ LlmReturns

\* two calls in flight, every network call returning or timing out
SpecTwoLive ==
    /\ InitTwo
    /\ [][NextTwo]_vars
    /\ WF_vars(Advance)
    /\ WF_vars(ClassifierCallEnds)
    /\ WF_vars(BackendCallEnds)
    /\ WF_vars(OtherClassified)
    /\ WF_vars(OtherAnswered)

(***************************************************************************)
(* The study buddy application: handle_query calling process_study_query   *)
(* on the request threads of the web server, and get_user_stats.           *)
(***************************************************************************)

\* at most this many calls of process_study_query are made
MaxStudyCalls == 2

\* bodies of POST /api/query: two questions of different task types, one of
\* them in blanks, and a blank query
StudyQueryInputs ==
    {<<"w", "h", "a", "t", " ", "i", "s", " ", "d", "n", "a">>,
     <<" ", "s", "o", "l", "v", "e", " ", "x", "+", "1", "=", "2", " ">>,
     <<" ">>}

NVIDIA_BASE_URL == "https://integrate.api.nvidia.com/v1"

\* the threads that serve requests: one after the other, or two at a time
Serving(load) == IF load = "threads" THEN ThreadIds ELSE {1}

\* what the API catalog does while two requests are served at a time: it is
\* unreachable or completes with text
OutcomesUnder(load) ==
    IF load = "threads"
    THEN {ApiRaised("ConnectionError"), ApiResponse(200, <<<<"4", "2">>>>)}
    ELSE ApiOutcomes

InitStudy ==
    /\ config = DefaultConfig
    /\ classifier_up = TRUE
    /\ workload = "study"
    /\ prev = NoneRec
    /\ edu_call = NoneRec
    /\ edu_result = NoneRec
    /\ other = OtherIdle
    /\ api_key \in {"", "nvapi-1"}
    /\ user_sessions = EmptyDict
    /\ heap = <<>>
    /\ threads = [t \in ThreadIds |-> ThreadIdle]
    /\ asked = [u \in Users |-> NotAsked]
    /\ stats = NoneRec
    /\ pc = "IDLE"
    /\ Fresh

InitThreads ==
    /\ config = DefaultConfig
    /\ classifier_up = TRUE
    /\ workload = "threads"
    /\ prev = NoneRec
    /\ edu_call = NoneRec
    /\ edu_result = NoneRec
    /\ other = OtherIdle
    /\ api_key \in {"", "nvapi-1"}
    /\ user_sessions = EmptyDict
    /\ heap = <<>>
    /\ threads = [t \in ThreadIds |-> ThreadIdle]
    /\ asked = [u \in Users |-> NotAsked]
    /\ stats = NoneRec
    /\ pc = "IDLE"
    /\ Fresh

\* the router service takes no part
RouterIdle ==
    UNCHANGED <<config, classifier_up, workload, prev, edu_call, edu_result, other,
                pc, request_body, locals, network, err, result>>

\* the calls of process_study_query begun so far
StudyCalls ==
    asked["user_1"].calls + asked["user_2"].calls +
    Cardinality({t \in ThreadIds : threads[t].pc # "IDLE"})

\* the session object a user id stands for now
SessionOf(user_id) == heap[user_sessions[user_id]]

\* handle_query: an empty query is answered with 400; otherwise
\* process_study_query runs up to the POST of _make_nvidia_request, or, without
\* an API key, through route_query
StudyCall(t) ==
    /\ threads[t].pc = "IDLE"
    /\ StudyCalls < MaxStudyCalls
    /\ \E user_id \in Users, text \in StudyQueryInputs :
          LET query_text == StripWhitespace(text)
              study_query == StudyQuery(user_id, query_text)
              task_type == classify_query(query_text)
              started == [ThreadIdle EXCEPT !.user_id = user_id,
                                            !.study_query = study_query]
          IN threads' = [threads EXCEPT ![t] =
                 IF query_text = <<>>
                 THEN [ThreadIdle EXCEPT !.result =
                          [status |-> 400, error |-> "Query cannot be empty"]]
                 ELSE IF api_key = ""
                 THEN [started EXCEPT
                          !.pc = "CHECK_SESSION",
                          !.response = route_query(study_query,
                              generate_fallback_response_by_type(task_type), FALSE)]
                 ELSE [started EXCEPT
                          !.pc = "AWAIT_API",
                          !.post = NvidiaRequest(api_key, NVIDIA_BASE_URL,
                                       prepare_educational_prompt(study_query, task_type),
                                       ModelConfig(task_type))]]
    /\ UNCHANGED <<api_key, user_sessions, heap, asked, stats>>
    /\ RouterIdle

\* requests.post returns or raises: the rest of _make_nvidia_request and of
\* route_query
ApiEnds(t) ==
    /\ threads[t].pc = "AWAIT_API"
    /\ \E outcome \in OutcomesUnder(workload) :
          LET study_query == threads[t].study_query
              task_type == classify_query(study_query.query)
              text == make_nvidia_request(outcome, task_type)
          IN threads' = [threads EXCEPT ![t].pc = "CHECK_SESSION",
                                        ![t].api = outcome,
                                        ![t].response =
                                            route_query(study_query, text, FALSE)]
    /\ UNCHANGED <<api_key, user_sessions, heap, asked, stats>>
    /\ RouterIdle

\* if user_id not in self.user_sessions
CheckSession(t) ==
    /\ threads[t].pc = "CHECK_SESSION"
    /\ threads' = [threads EXCEPT ![t].pc =
                      IF Has(user_sessions, threads[t].user_id)
                      THEN "APPEND" ELSE "CREATE_SESSION"]
    /\ UNCHANGED <<api_key, user_sessions, heap, asked, stats>>
    /\ RouterIdle

\* self.user_sessions[user_id] = {'queries': [], 'total_cost': 0.0, ...}
CreateSession(t) ==
    /\ threads[t].pc = "CREATE_SESSION"
    /\ heap' = Append(heap, [queries |-> <<>>, total_cost |-> 0,
                             session_start |-> "now"])
    /\ user_sessions' = (threads[t].user_id :> Len(heap')) @@ user_sessions
    /\ threads' = [threads EXCEPT ![t].pc = "APPEND"]
    /\ UNCHANGED <<api_key, asked, stats>>
    /\ RouterIdle

\* self.user_sessions[user_id]['queries'].append({...})
AppendQuery(t) ==
    /\ threads[t].pc = "APPEND"
    /\ LET session == user_sessions[threads[t].user_id]
       IN heap' = [heap EXCEPT ![session].queries =
                      Append(@, [query |-> threads[t].study_query,
                                 response |-> threads[t].response])]
    /\ threads' = [threads EXCEPT ![t].pc = "LOAD_COST"]
    /\ UNCHANGED <<api_key, user_sessions, asked, stats>>
    /\ RouterIdle

\* self.user_sessions[user_id]['total_cost'] += response.cost, its read
LoadCost(t) ==
    /\ threads[t].pc = "LOAD_COST"
    /\ LET session == user_sessions[threads[t].user_id]
       IN threads' = [threads EXCEPT ![t].pc = "STORE_COST",
                                     ![t].session = session,
                                     ![t].total_cost = heap[session].total_cost]
    /\ UNCHANGED <<api_key, user_sessions, heap, asked, stats>>
    /\ RouterIdle

\* mutant: the cost of the response replaces the total
StoreCostReplaces(t) ==
    /\ threads[t].pc = "STORE_COST"
    /\ heap' = [heap EXCEPT ![threads[t].session].total_cost = threads[t].response.cost]
    /\ threads' = [threads EXCEPT ![t].pc = "RETURN"]
    /\ UNCHANGED <<api_key, user_sessions, asked, stats>>
    /\ RouterIdle

\* self.user_sessions[user_id]['total_cost'] += response.cost, its write
StoreCost(t) ==
    /\ threads[t].pc = "STORE_COST"
    /\ heap' = [heap EXCEPT ![threads[t].session].total_cost =
                   threads[t].total_cost + threads[t].response.cost]
    /\ threads' = [threads EXCEPT ![t].pc = "RETURN"]
    /\ UNCHANGED <<api_key, user_sessions, asked, stats>>
    /\ RouterIdle

\* the dict process_study_query returns, and handle_query's answer
StudyReturn(t) ==
    /\ threads[t].pc = "RETURN"
    /\ LET me == threads[t]
           response == me.response
       IN /\ threads' = [threads EXCEPT ![t] =
                 [ThreadIdle EXCEPT !.result =
                     [status |-> 200,
                      response |-> response.response,
                      model_used |-> response.model_used,
                      cost |-> response.cost,
                      response_time |-> response.response_time,
                      confidence |-> response.confidence,
                      session_cost |-> SessionOf(me.user_id).total_cost,
                      detected_subject |-> me.study_query.subject,
                      detected_difficulty |-> me.study_query.difficulty]]]
          /\ asked' = [asked EXCEPT ![me.user_id] =
                          [calls |-> @.calls + 1, cost |-> @.cost + response.cost]]
    /\ UNCHANGED <<api_key, user_sessions, heap, stats>>
    /\ RouterIdle

\* StudyBuddyService.get_user_stats; the session time is not modelled
get_user_stats(user_id) ==
    IF ~Has(user_sessions, user_id)
    THEN [queries |-> 0, total_cost |-> 0, session_time |-> "0"]
    ELSE [queries |-> Len(SessionOf(user_id).queries),
          total_cost |-> SessionOf(user_id).total_cost,
          session_time |-> "elapsed"]

\* GET /api/stats between two queries
GetStats ==
    /\ \A t \in ThreadIds : threads[t].pc = "IDLE"
    /\ \E user_id \in Users :
          stats' = [user_id |-> user_id, stats |-> get_user_stats(user_id)]
    /\ UNCHANGED <<api_key, user_sessions, heap, threads, asked>>
    /\ RouterIdle

NextStudy ==
    \/ \E t \in Serving(workload) :
          \/ StudyCall(t)
          \/ ApiEnds(t)
          \/ CheckSession(t)
          \/ CreateSession(t)
          \/ AppendQuery(t)
          \/ LoadCost(t)
          \/ StoreCost(t)
          \/ StudyReturn(t)
    \/ GetStats

\* the application serving one request at a time
SpecStudy == InitStudy /\ [][NextStudy]_vars

\* the application serving two requests at a time
SpecThreads == InitThreads /\ [][NextStudy]_vars

(***************************************************************************)
(* Vocabulary of the properties: what a request asks for, read off the     *)
(* caller's dict independently of the router's own parsing.                *)
(***************************************************************************)
InFlight == pc # "IDLE"

\* s without its leading and trailing blanks
Trimmed(s) ==
    LET solid == {i \in 1..Len(s) : s[i] # " "}
    IN IF solid = {} THEN <<>>
       ELSE SubSeq(s, CHOOSE i \in solid : \A j \in solid : i <= j,
                      CHOOSE i \in solid : \A j \in solid : j <= i)

\* the request carries a routing block with a non-empty policy name
HasDirective ==
    /\ InFlight
    /\ Has(request_body, NimKey)
    /\ request_body[NimKey] # EmptyDict
    /\ Has(request_body[NimKey], "policy")
    /\ request_body[NimKey]["policy"] # EmptyStr

ReqNim == request_body[NimKey]

ReqStrategyIs(strategy) ==
    /\ HasDirective
    /\ Has(ReqNim, "routing_strategy")
    /\ ReqNim["routing_strategy"] = strategy

ReqNoStrategy ==
    /\ HasDirective
    /\ ~ReqStrategyIs("manual")
    /\ ~ReqStrategyIs("triton")

\* the positions of the registry's policies the directive names
NamedPolicies ==
    {i \in 1..Len(config.policies) :
        Trimmed(config.policies[i].name) = Trimmed(ReqNim["policy"])}

KnownPolicy == HasDirective /\ NamedPolicies # {}

\* the policy the directive names (policy names are unique in the registry)
ReqPolicy == config.policies[CHOOSE i \in NamedPolicies : TRUE]

\* the positions of the named policy's backends called exactly `name`
BackendsNamed(name) ==
    {i \in 1..Len(ReqPolicy.llms) : ReqPolicy.llms[i].name = name}

\* a MANUAL directive whose model is the exact name of a backend
ReqManualNamesBackend ==
    /\ ReqStrategyIs("manual")
    /\ KnownPolicy
    /\ Has(ReqNim, "model")
    /\ BackendsNamed(ReqNim["model"]) # {}

NoNetworkCall == triton_calls = <<>> /\ llm_calls = <<>>

\* the stages behind backend selection
Selected == pc \in {"GET_LLM", "REWRITE_REQUEST", "PROXY", "AWAIT_LLM", "DONE"}
HasChosen == pc \in {"REWRITE_REQUEST", "PROXY", "AWAIT_LLM", "DONE"}
BeforeSelection == pc \in {"IDLE", "PARSE_DIRECTIVE", "RESOLVE_POLICY", "SELECT_BACKEND"}

\* the request failed in the backend call, not before
FailedInProxy ==
    /\ pc = "FAILED"
    /\ llm_calls # <<>>
    /\ err.msg \in NetworkErrors \cup {LlmErrorMsg}

(***************************************************************************)
(* C1. A MANUAL directive whose model names an existing backend of the     *)
(* resolved policy selects exactly that backend: the request cannot fail   *)
(* before the backend call, the selected index, backend and label are      *)
(* those of the named backend, the returned label is its name and the      *)
(* returned model its model id; the classification service is never        *)
(* called, reachable or not.                                               *)
(***************************************************************************)
ManualSelectsNamedBackend ==
    ReqManualNamesBackend =>
        LET i == CHOOSE k \in BackendsNamed(ReqNim["model"]) : TRUE
            backend == ReqPolicy.llms[i]
        IN /\ triton_calls = <<>>
           /\ triton_response = Unset
           /\ pc = "FAILED" => FailedInProxy
           /\ (Selected \/ FailedInProxy) => model_index = i - 1
           /\ (HasChosen \/ FailedInProxy) =>
                /\ chosen_llm = backend
                /\ chosen_classifier = ReqNim["model"]
           /\ pc = "DONE" =>
                /\ result.chosen_classifier = backend.name
                /\ result.chosen_model = backend.model

\* a manual request for B under policy q was answered while the classifier
\* was down
ManualSelectsNamedBackendWitness ==
    /\ pc = "DONE"
    /\ ReqManualNamesBackend
    /\ ~classifier_up
    /\ ReqNim["policy"] = <<"q">>
    /\ ReqNim["model"] = <<"B">>
    /\ result.chosen_model = "nemotron-49b"

(***************************************************************************)
(* C2. Under the triton strategy, for every non-empty classifier output    *)
(* vector the index chosen is the position of the maximum, the lowest one  *)
(* when the maximum occurs more than once, and the backend selected is     *)
(* the one at that index of the policy's declared order.                   *)
(***************************************************************************)
\* i is the lowest position of the maximum of v (1-based)
IsFirstMax(v, i) ==
    /\ i \in 1..Len(v)
    /\ \A j \in 1..Len(v) : v[j] <= v[i]
    /\ \A j \in 1..(i - 1) : v[j] < v[i]

\* the classification service answered with a non-empty vector
ClassifierAnswered ==
    /\ ReqStrategyIs("triton")
    /\ triton_response # Unset
    /\ triton_response.status_code = 200
    /\ Has(triton_response.json, "outputs")
    /\ triton_response.json["outputs"] # <<>>
    /\ triton_response.json["outputs"][1].data # <<>>

ClassifierVector == triton_response.json["outputs"][1].data

TritonSelectsFirstMax ==
    ClassifierAnswered =>
        /\ IsFirstMax(ClassifierVector, model_index + 1)
        /\ pc # "FAILED" => Selected
        /\ HasChosen =>
             /\ model_index + 1 \in 1..Len(ReqPolicy.llms)
             /\ chosen_llm = ReqPolicy.llms[model_index + 1]
        /\ pc = "DONE" =>
             /\ result.chosen_classifier = ReqPolicy.llms[model_index + 1].name
             /\ result.chosen_model = ReqPolicy.llms[model_index + 1].model

\* backends [A, B, C], scores [0, 1, 1]: B, the lower of the two maxima
TritonSelectsFirstMaxWitness ==
    /\ pc = "DONE"
    /\ ClassifierAnswered
    /\ ReqNim["policy"] = <<"p">>
    /\ ClassifierVector = <<0, 1, 1>>
    /\ result.chosen_classifier = <<"B">>

(***************************************************************************)
(* C3. A request without a routing block, or whose block has no non-empty  *)
(* policy name, fails with the missing-parameters error as soon as it is   *)
(* parsed; no policy is resolved, no backend is selected and no network    *)
(* call is made for it.                                                    *)
(***************************************************************************)
MissingDirectiveFails ==
    (InFlight /\ ~HasDirective) =>
        /\ pc \in {"PARSE_DIRECTIVE", "FAILED"}
        /\ pc = "FAILED" => err = Exc(MissingParamsMsg)
        /\ policy = Unset
        /\ model_index = -1
        /\ chosen_llm = Unset
        /\ NoNetworkCall
        /\ result = NoResult

\* a request whose routing block names a strategy but no policy has failed
MissingDirectiveFailsWitness ==
    /\ pc = "FAILED"
    /\ Has(request_body, NimKey)
    /\ Has(request_body[NimKey], "routing_strategy")
    /\ ~Has(request_body[NimKey], "policy")
    /\ err.msg = MissingParamsMsg

(***************************************************************************)
(* C4. A request whose directive names a policy that is not in the         *)
(* registry fails with the policy-not-found error at policy resolution,    *)
(* under either strategy, and no network call is ever made for it.         *)
(***************************************************************************)
UnknownPolicyFails ==
    (HasDirective /\ ~KnownPolicy) =>
        /\ pc \in {"PARSE_DIRECTIVE", "RESOLVE_POLICY", "FAILED"}
        /\ pc = "FAILED" => err = Exc(PolicyNotFoundMsg)
        /\ model_index = -1
        /\ chosen_llm = Unset
        /\ NoNetworkCall
        /\ result = NoResult

\* a triton request for the unknown policy z has failed
UnknownPolicyFailsWitness ==
    /\ pc = "FAILED"
    /\ ReqStrategyIs("triton")
    /\ ReqNim["policy"] = <<"z">>
    /\ err.msg = PolicyNotFoundMsg

(***************************************************************************)
(* C5. The body of every backend call lacks the routing block, has 'model' *)
(* set to the selected backend's model id whatever the caller supplied,    *)
(* and carries every other key of the caller's payload with its value and  *)
(* no further key.                                                         *)
(***************************************************************************)
DownstreamBodyRewritten ==
    \A c \in 1..Len(llm_calls) :
        LET sent == llm_calls[c].json
        IN /\ ~Has(sent, NimKey)
           /\ Has(sent, "model")
           /\ sent["model"] = ReqPolicy.llms[model_index + 1].model
           /\ DOMAIN sent = (DOMAIN request_body \ {NimKey}) \cup {"model"}
           /\ \A k \in DOMAIN request_body \ {NimKey, "model"} :
                sent[k] = request_body[k]

\* a request that came with a model of its own and two more keys was sent
\* to a backend with another model id
DownstreamBodyRewrittenWitness ==
    /\ pc = "AWAIT_LLM"
    /\ Len(llm_calls) = 1
    /\ Has(request_body, "model")
    /\ request_body["model"] = "gpt-4"
    /\ Has(request_body, "messages")
    /\ Has(request_body, "max_tokens")
    /\ llm_calls[1].json["model"] = "llama-8b"

(***************************************************************************)
(* C6. When the backend answers with a non-success status, route_request   *)
(* fails with the LLM-service error carrying that status code and that     *)
(* response body verbatim, and returns nothing.                            *)
(***************************************************************************)
BackendAnsweredError ==
    /\ llm_response # Unset
    /\ llm_response.status_code \notin 200..299

BackendErrorSurfaces ==
    BackendAnsweredError =>
        /\ pc = "FAILED"
        /\ err.msg = LlmErrorMsg
        /\ err.status_code = llm_response.status_code
        /\ err.text = llm_response.text
        /\ result = NoResult

\* a backend answered 500 "overloaded"
BackendErrorSurfacesWitness ==
    /\ pc = "FAILED"
    /\ llm_response # Unset
    /\ llm_response.status_code = 500
    /\ llm_response.text = "overloaded"
    /\ err.status_code = 500

(***************************************************************************)
(* C7. On success route_request returns the backend's response body as     *)
(* received, and the model id and the registry name of one and the same    *)
(* backend: the one at the selected index of the resolved policy, which is *)
(* also the one the request was sent to.                                   *)
(***************************************************************************)
SuccessReturnsSameBackend ==
    pc = "DONE" =>
        /\ llm_response # Unset
        /\ result.response_data = llm_response.json
        /\ model_index + 1 \in 1..Len(ReqPolicy.llms)
        /\ LET backend == ReqPolicy.llms[model_index + 1]
           IN /\ result.chosen_model = backend.model
              /\ result.chosen_classifier = backend.name
              /\ llm_calls[1].url = <<backend.api_base, "/v1/chat/completions">>

\* backend A of policy p answered; C has the same model id as A
SuccessReturnsSameBackendWitness ==
    /\ pc = "DONE"
    /\ ReqNim["policy"] = <<"p">>
    /\ result.chosen_classifier = <<"A">>
    /\ result.chosen_model = "llama-70b"
    /\ Has(result.response_data, "usage")
    /\ result.response_data["choices"] = <<Choice("answer two")>>

(***************************************************************************)
(* C8. A request with a known policy whose routing_strategy is absent or   *)
(* neither 'manual' nor 'triton' fails with the no-strategy error at       *)
(* backend selection; no index is chosen and no network call is made.      *)
(***************************************************************************)
NoStrategyFails ==
    (KnownPolicy /\ ReqNoStrategy) =>
        /\ pc \in {"PARSE_DIRECTIVE", "RESOLVE_POLICY", "SELECT_BACKEND", "FAILED"}
        /\ pc = "FAILED" => err = Exc(NoStrategyMsg)
        /\ model_index = -1
        /\ chosen_llm = Unset
        /\ NoNetworkCall
        /\ result = NoResult

\* a request with routing_strategy 'auto' and a backend name has failed
NoStrategyFailsWitness ==
    /\ pc = "FAILED"
    /\ KnownPolicy
    /\ Has(ReqNim, "routing_strategy")
    /\ ReqNim["routing_strategy"] = "auto"
    /\ Has(ReqNim, "model")
    /\ ReqNim["model"] = <<"A">>
    /\ err.msg = NoStrategyMsg

(***************************************************************************)
(* C9. Under the manual strategy a directive whose model is absent, empty  *)
(* or names no backend of the resolved policy (not even up to surrounding  *)
(* blanks) fails at backend selection with the no-model or the             *)
(* model-not-found error; no network call is made.                         *)
(***************************************************************************)
\* the positions of the named policy's backends called `name` up to blanks
BackendsNamedTrimmed(name) ==
    {i \in 1..Len(ReqPolicy.llms) :
        Trimmed(ReqPolicy.llms[i].name) = Trimmed(name)}

ReqManualWithoutBackend ==
    /\ ReqStrategyIs("manual")
    /\ KnownPolicy
    /\ \/ ~Has(ReqNim, "model")
       \/ ReqNim["model"] = EmptyStr
       \/ BackendsNamedTrimmed(ReqNim["model"]) = {}

ManualUnknownBackendFails ==
    ReqManualWithoutBackend =>
        /\ pc \in {"PARSE_DIRECTIVE", "RESOLVE_POLICY", "SELECT_BACKEND", "FAILED"}
        /\ pc = "FAILED" =>
             err = IF ~Has(ReqNim, "model") \/ ReqNim["model"] = EmptyStr
                   THEN Exc(NoModelMsg) ELSE Exc(ModelNotFoundMsg)
        /\ model_index = -1
        /\ chosen_llm = Unset
        /\ NoNetworkCall
        /\ result = NoResult

\* a manual request for the backend Z, which policy p does not have, failed
ManualUnknownBackendFailsWitness ==
    /\ pc = "FAILED"
    /\ ReqManualWithoutBackend
    /\ Has(ReqNim, "model")
    /\ ReqNim["model"] = <<"Z">>
    /\ err.msg = ModelNotFoundMsg

(***************************************************************************)
(* C10. The manual strategy resolves the backend by trimmed-whitespace     *)
(* matching, as Policy.get_llm_by_name does: a directive model that equals *)
(* a backend's name once both are trimmed selects that backend.            *)
(***************************************************************************)
ReqManualNamesBackendTrimmed ==
    /\ ReqStrategyIs("manual")
    /\ KnownPolicy
    /\ Has(ReqNim, "model")
    /\ ReqNim["model"] # EmptyStr
    /\ BackendsNamedTrimmed(ReqNim["model"]) # {}

ManualTrimmedLookup ==
    (ReqManualNamesBackendTrimmed /\ ~BeforeSelection) =>
        LET i == CHOOSE k \in BackendsNamedTrimmed(ReqNim["model"]) : TRUE
            backend == ReqPolicy.llms[i]
        IN /\ get_llm_by_name(ReqPolicy, ReqNim["model"]) = backend
           /\ pc = "FAILED" => FailedInProxy
           /\ HasChosen => chosen_llm = backend

(***************************************************************************)
(* C11. Under the triton strategy the text sent to the classification      *)
(* service is the raw content of the request's last message, not the       *)
(* serialised and shortened conversation; a request without messages, or   *)
(* whose last message has no content, sends the empty string, and the      *)
(* classification service is called all the same.                          *)
(***************************************************************************)
\* the content of the request's last message, empty when there is none
ReqLastContent ==
    IF ~Has(request_body, "messages") \/ request_body["messages"] = <<>>
    THEN EmptyStr
    ELSE LET last == request_body["messages"][Len(request_body["messages"])]
         IN IF Has(last, "content") THEN last.content ELSE EmptyStr

\* a request for the triton strategy under a policy of the registry
ReqTriton == ReqStrategyIs("triton") /\ KnownPolicy

\* the text of a request to the classification service
SentText(call) == call.json.inputs[1].data[1][1]

ClassifierTextIsLastMessage ==
    (ReqTriton /\ ~BeforeSelection) =>
        /\ Len(triton_calls) = 1
        /\ triton_calls[1].json.inputs[1].data = << <<ReqLastContent>> >>
        /\ SentText(triton_calls[1]) # text_input
        /\ triton_calls[1].url = ReqPolicy.url

\* a request without messages was classified on the empty string and answered
ClassifierTextIsLastMessageWitness ==
    /\ pc = "DONE"
    /\ ReqTriton
    /\ ~Has(request_body, "messages")
    /\ triton_calls # <<>>
    /\ SentText(triton_calls[1]) = EmptyStr
    /\ text_input = <<"[", "]">>

(***************************************************************************)
(* C12. The text route_request sends to the classification service is      *)
(* bounded whatever the length of the conversation: every request to the   *)
(* classification service carries a text of at most 2000 characters.       *)
(***************************************************************************)
ClassifierInputBounded ==
    \A i \in 1..Len(triton_calls) : Len(SentText(triton_calls[i])) <= MaxTextLen

(***************************************************************************)
(* C13. convert_messages_to_text_input returns the serialised conversation *)
(* unchanged when it has at most 2000 characters and exactly its final     *)
(* 2000 characters when it has more; shortening a shortened text changes   *)
(* nothing, and the result is always a suffix of the serialisation.        *)
(***************************************************************************)
\* t is what remains of s after dropping characters from its front
IsSuffix(t, s) ==
    /\ Len(t) <= Len(s)
    /\ t = SubSeq(s, Len(s) - Len(t) + 1, Len(s))

\* the request's conversation as step 3 sees it, serialised
ReqBlob == json_dumps(Get(request_body, "messages", <<>>))

\* step 3 has just run: text_input holds what
\* convert_messages_to_text_input returned
TextPrepared == pc = "SELECT_BACKEND"

TextInputIsBoundedSuffix ==
    TextPrepared =>
        LET blob == ReqBlob
        IN /\ text_input = convert_messages_to_text_input(messages)
           /\ Len(blob) <= MaxTextLen => text_input = blob
           /\ Len(blob) > MaxTextLen => Len(text_input) = MaxTextLen
           /\ IsSuffix(text_input, blob)
           /\ Shorten(text_input) = text_input

\* a conversation of 2001 serialised characters lost its opening bracket
\* and nothing else
TextInputIsBoundedSuffixWitness ==
    /\ TextPrepared
    /\ Len(ReqBlob) = MaxTextLen + 1
    /\ Len(text_input) = MaxTextLen
    /\ text_input[1] = "{"
    /\ text_input[MaxTextLen] = "]"

(***************************************************************************)
(* C14. Under the triton strategy, when the classifier's output vector is  *)
(* longer than the policy's backend list and its maximum lies beyond the   *)
(* last backend, the request fails with "LLM not found at index"; no       *)
(* backend is selected in its place and no backend call is made.           *)
(***************************************************************************)
\* the lowest position of the maximum of the classifier's vector (1-based)
FirstMax == CHOOSE i \in 1..Len(ClassifierVector) : IsFirstMax(ClassifierVector, i)

ClassifierIndexBeyondBackends ==
    /\ ClassifierAnswered
    /\ KnownPolicy
    /\ FirstMax > Len(ReqPolicy.llms)

IndexBeyondBackendsFails ==
    ClassifierIndexBeyondBackends =>
        /\ pc \in {"GET_LLM", "FAILED"}
        /\ pc = "FAILED" => err = Exc(LlmNotFoundMsg) /\ chosen_llm = NoneRec
        /\ pc = "GET_LLM" => chosen_llm = Unset
        /\ chosen_classifier = UnsetStr
        /\ llm_calls = <<>>
        /\ result = NoResult

\* policy q has two backends and the classifier voted for a third
IndexBeyondBackendsFailsWitness ==
    /\ pc = "FAILED"
    /\ ClassifierIndexBeyondBackends
    /\ ReqNim["policy"] = <<"q">>
    /\ ClassifierVector = <<0, 0, 1>>
    /\ model_index = 2
    /\ err.msg = LlmNotFoundMsg

(***************************************************************************)
(* C15. The classifier step fails when the classification service answers  *)
(* with a non-success status, with a body that has no 'outputs' or an      *)
(* empty 'outputs' list, or with an empty output data vector: each of      *)
(* these answers ends the request in failure, with the error of its case,  *)
(* no backend selected and no backend call made.                           *)
(***************************************************************************)
ClassifierAnsweredBadly ==
    /\ ReqTriton
    /\ triton_response # Unset
    /\ \/ triton_response.status_code >= 400
       \/ ~Has(triton_response.json, "outputs")
       \/ triton_response.json["outputs"] = <<>>
       \/ triton_response.json["outputs"][1].data = <<>>

\* the error the classifier step raises for a bad answer
ClassifierError(response) ==
    IF response.status_code >= 400
    THEN [msg |-> TritonErrorMsg, status_code |-> response.status_code,
          text |-> response.text]
    ELSE IF ~Has(response.json, "outputs") \/ response.json["outputs"] = <<>>
    THEN [msg |-> NoOutputsMsg, status_code |-> 0, text |-> ""]
    ELSE [msg |-> EmptyMaxMsg, status_code |-> 0, text |-> ""]

ClassifierFailureFails ==
    ClassifierAnsweredBadly =>
        /\ pc = "FAILED"
        /\ err = ClassifierError(triton_response)
        /\ model_index = -1
        /\ chosen_llm = Unset
        /\ final_body = Unset
        /\ llm_calls = <<>>
        /\ result = NoResult

\* the classification service answered 200 with an empty data vector
ClassifierFailureFailsWitness ==
    /\ pc = "FAILED"
    /\ ClassifierAnsweredBadly
    /\ triton_response.status_code = 200
    /\ Has(triton_response.json, "outputs")
    /\ triton_response.json["outputs"] # <<>>
    /\ triton_response.json["outputs"][1].data = <<>>
    /\ err.msg = EmptyMaxMsg

(***************************************************************************)
(* C16. The directive's threshold is inert: of two requests that differ    *)
(* only in the value or presence of 'threshold' and meet the same          *)
(* classifier answer, the second selects the same index, backend and       *)
(* label as the first and sends the same requests to the backend.          *)
(***************************************************************************)
\* the second request of a pair has ended, on the classifier answer of the first
PairEnded ==
    /\ prev # NoneRec
    /\ pc \in {"DONE", "FAILED"}
    /\ SameButThreshold(request_body, prev.request_body)
    /\ triton_response = prev.triton_response

ThresholdIsInert ==
    PairEnded =>
        /\ model_index = prev.model_index
        /\ chosen_llm = prev.chosen_llm
        /\ chosen_classifier = prev.chosen_classifier
        /\ llm_calls = prev.llm_calls

\* scores [0, 1] with threshold 0.2 and then 1.5, above the maximum: both
\* requests went to B
ThresholdIsInertWitness ==
    /\ PairEnded
    /\ ReqTriton
    /\ ClassifierAnswered
    /\ ClassifierVector = <<0, 1>>
    /\ Get(prev.request_body[NimKey], "threshold", DefaultThreshold) = 2
    /\ Get(ReqNim, "threshold", DefaultThreshold) = 15
    /\ llm_calls # <<>>
    /\ chosen_llm.name = <<"B">>

(***************************************************************************)
(* C17. Loading a configuration that contains two policies with the same   *)
(* name fails, so that in every loaded registry the policy names are       *)
(* unique.                                                                 *)
(***************************************************************************)
\* load_config has returned a registry
RegistryLoaded == pc \notin {"START", "LOAD_FAILED"}

LoadedPolicyNamesUnique ==
    RegistryLoaded =>
        \A i, j \in 1..Len(config.policies) :
            config.policies[i].name = config.policies[j].name => i = j

(***************************************************************************)
(* C18. process_educational_query never raises to its caller: whenever     *)
(* route_request failed, at whatever stage, or the backend's body lacks    *)
(* the expected choices, the result it returns has an 'error' entry and    *)
(* model_used = 'error'; a result without an 'error' entry is returned     *)
(* only when routing succeeded, and carries the model and the classifier   *)
(* label route_request returned.                                           *)
(***************************************************************************)
EduReturned == pc = "RETURNED"

\* route_request returned to process_educational_query
RoutingSucceeded == err = NoErr /\ result # NoResult

HasChoices(response_data) ==
    Has(response_data, "choices") /\ response_data["choices"] # <<>>

EduNeverRaises ==
    /\ (edu_call # NoneRec /\ pc \in {"DONE", "FAILED"}) => ENABLED EduReturn
    /\ EduReturned =>
        /\ edu_result # NoneRec
        /\ Has(edu_result, "response")
        /\ Has(edu_result, "model_used")
        /\ (~RoutingSucceeded \/ ~HasChoices(result.response_data)) =>
             /\ Has(edu_result, "error")
             /\ edu_result["model_used"] = "error"
        /\ ~Has(edu_result, "error") =>
             /\ RoutingSucceeded
             /\ edu_result["model_used"] = result.chosen_model
             /\ edu_result["classifier_used"] = result.chosen_classifier
             /\ edu_result["response"] =
                    result.response_data["choices"][1].message.content

\* the backend answered 200 without 'choices': routing succeeded, and the
\* caller got the error result
EduNeverRaisesWitness ==
    /\ EduReturned
    /\ RoutingSucceeded
    /\ ~Has(result.response_data, "choices")
    /\ Has(edu_result, "error")
    /\ edu_result["error"].msg = "choices"
    /\ edu_result["model_used"] = "error"
    /\ edu_call.subject = <<"M", "a", "t", "h", "e", "m", "a", "t", "i", "c", "s">>

(***************************************************************************)
(* C19. Every request moves through the stages PARSE_DIRECTIVE,            *)
(* RESOLVE_POLICY, SELECT_BACKEND, REWRITE_REQUEST, PROXY, DONE in this    *)
(* order, without skipping or revisiting a stage; an error in any stage    *)
(* moves the request to FAILED, and from DONE and FAILED the request goes  *)
(* nowhere: the only step left is its end.                                 *)
(***************************************************************************)
\* the stage a position of route_request belongs to: waiting for the
\* classification service and resolving its index are part of backend
\* selection, waiting for the backend is part of the proxy stage
Stage(p) ==
    CASE p = "PARSE_DIRECTIVE" -> 1
      [] p = "RESOLVE_POLICY" -> 2
      [] p \in {"SELECT_BACKEND", "AWAIT_TRITON", "GET_LLM"} -> 3
      [] p = "REWRITE_REQUEST" -> 4
      [] p \in {"PROXY", "AWAIT_LLM"} -> 5
      [] p = "DONE" -> 6
      [] OTHER -> 0

\* the order of the positions within the pipeline
Rank(p) ==
    CASE p = "PARSE_DIRECTIVE" -> 1
      [] p = "RESOLVE_POLICY" -> 2
      [] p = "SELECT_BACKEND" -> 3
      [] p = "AWAIT_TRITON" -> 4
      [] p = "GET_LLM" -> 5
      [] p = "REWRITE_REQUEST" -> 6
      [] p = "PROXY" -> 7
      [] p = "AWAIT_LLM" -> 8
      [] p = "DONE" -> 9
      [] OTHER -> 0

Working(p) == Stage(p) \in 1..5

StageStep ==
    /\ pc = "IDLE" => pc' = "PARSE_DIRECTIVE"
    /\ Working(pc) =>
         \/ pc' = "FAILED" /\ err = NoErr /\ err' # NoErr
         \/ /\ Rank(pc') > Rank(pc)
            /\ Stage(pc') \in {Stage(pc), Stage(pc) + 1}
            /\ err' = NoErr
    /\ pc \in {"DONE", "FAILED"} => pc' = "IDLE"

\* an error is pending exactly in FAILED
FailedIffError == (pc = "FAILED") <=> (err # NoErr)

StagesInOrder == [](FailedIffError) /\ [][StageStep]_vars

\* a classified request went through every stage
StagesInOrderWitness ==
    /\ pc = "DONE"
    /\ triton_calls # <<>>
    /\ llm_calls # <<>>
    /\ final_body # Unset
    /\ err = NoErr

(***************************************************************************)
(* C20. No retry is performed: within one request the classification       *)
(* service is called at most once and a backend at most once, a backend    *)
(* call never precedes the classifier call, and after a failed call no     *)
(* further network call is made for that request.                          *)
(***************************************************************************)
CalledAtMostOnce ==
    /\ Len(triton_calls) <= 1
    /\ Len(llm_calls) <= 1

\* a call has failed: it raised, or it was answered with an error status
CallFailed ==
    \/ pc = "FAILED" /\ (triton_calls # <<>> \/ llm_calls # <<>>)
    \/ triton_response # Unset /\ triton_response.status_code >= 400
    \/ llm_response # Unset /\ llm_response.status_code >= 400

\* no call is added to those of the request
NoNewCall == triton_calls' = triton_calls /\ llm_calls' = llm_calls

NoRetryStep ==
    /\ triton_calls' # triton_calls /\ triton_calls' # <<>> =>
         llm_calls = <<>> /\ llm_calls' = <<>>
    /\ CallFailed => NoNewCall \/ pc' = "IDLE"

NoRetry == [](CalledAtMostOnce) /\ [][NoRetryStep]_vars

\* the classifier answered, the backend call timed out, and that was all
NoRetryWitness ==
    /\ pc = "FAILED"
    /\ Len(triton_calls) = 1
    /\ Len(llm_calls) = 1
    /\ triton_response # Unset
    /\ llm_response = Unset
    /\ err.msg = "Timeout"

(***************************************************************************)
(* C21. When a request has several defects, the error reported is that of  *)
(* the earliest stage of the pipeline: a missing directive is reported     *)
(* before an unknown policy, and an unknown policy before an absent or     *)
(* invalid strategy or a missing manual backend name.                      *)
(***************************************************************************)
\* the routing block as the caller wrote it, empty when there is none
ReqBlock == Get(request_body, NimKey, EmptyDict)

\* no policy of the registry carries the name the block gives, if it gives one
PolicyDefect ==
    \A i \in 1..Len(config.policies) :
        Trimmed(config.policies[i].name) # Trimmed(Get(ReqBlock, "policy", EmptyStr))

\* no usable strategy, or the manual strategy without a backend name
SelectionDefect ==
    \/ Get(ReqBlock, "routing_strategy", "") \notin {"manual", "triton"}
    \/ /\ Get(ReqBlock, "routing_strategy", "") = "manual"
       /\ Get(ReqBlock, "model", EmptyStr) = EmptyStr

EarliestDefectReported ==
    pc = "FAILED" =>
        /\ (~HasDirective /\ (PolicyDefect \/ SelectionDefect)) =>
             err = Exc(MissingParamsMsg) /\ NoNetworkCall
        /\ (HasDirective /\ PolicyDefect /\ SelectionDefect) =>
             err = Exc(PolicyNotFoundMsg) /\ NoNetworkCall

\* the unknown policy z with the invalid strategy auto: the policy is reported
EarliestDefectReportedWitness ==
    /\ pc = "FAILED"
    /\ HasDirective
    /\ PolicyDefect
    /\ ReqNim["policy"] = <<"z">>
    /\ Get(ReqBlock, "routing_strategy", "") = "auto"
    /\ err.msg = PolicyNotFoundMsg

(***************************************************************************)
(* C22. The registry is never mutated by request processing: whatever      *)
(* requests are routed, successful or failed and under either strategy,    *)
(* the policies, each policy's classifier URL and the order and fields of  *)
(* each policy's backends stay what was loaded.                            *)
(***************************************************************************)
\* no step of a request changes the registry
RegistryKept == config' = config

\* the policy a request resolved is still the registry's own
ResolvedPolicyInRegistry ==
    (policy # Unset /\ policy # NoneRec) =>
        \E i \in 1..Len(config.policies) : config.policies[i] = policy

RegistryNeverMutated ==
    /\ [](config = DefaultConfig /\ ResolvedPolicyInRegistry)
    /\ [][RegistryKept]_vars

\* a classified request was answered by the backend the registry still lists
RegistryNeverMutatedWitness ==
    /\ pc = "DONE"
    /\ triton_calls # <<>>
    /\ config = DefaultConfig
    /\ policy = config.policies[2]
    /\ chosen_llm = config.policies[2].llms[2]

(***************************************************************************)
(* Two calls in flight                                                     *)
(***************************************************************************)

\* what a call that saw these answers comes to when no other call is in
\* flight: at is where the call stands, e what its POST raised if it raised
AloneRun(req, at, tr, lr, e) ==
    LET s0 == RouteStart(config, req, Unset)
        s1 == IF s0.pc = "AWAIT_TRITON" /\ at # "AWAIT_TRITON"
              THEN IF tr = Unset THEN RouteRaised(s0, e) ELSE RouteClassified(s0, tr)
              ELSE s0
    IN IF s1.pc = "AWAIT_LLM" /\ at # "AWAIT_LLM"
       THEN IF lr = Unset THEN RouteRaised(s1, e) ELSE RouteAnswered(s1, lr)
       ELSE s1

\* the first call's selection, downstream request, calls and outcome
First ==
    [pc |-> pc, model_index |-> model_index, chosen_llm |-> chosen_llm,
     chosen_classifier |-> chosen_classifier, final_body |-> final_body,
     triton_calls |-> triton_calls, llm_calls |-> llm_calls,
     err |-> err, result |-> result]

Outcome(r) ==
    [pc |-> r.pc, model_index |-> r.model_index, chosen_llm |-> r.chosen_llm,
     chosen_classifier |-> r.chosen_classifier, final_body |-> r.final_body,
     triton_calls |-> r.triton_calls, llm_calls |-> r.llm_calls,
     err |-> r.err, result |-> r.result]

AtSuspensionOrEnd(at) == at \in {"AWAIT_TRITON", "AWAIT_LLM", "DONE", "FAILED"}

FirstVars == <<pc, request_body, locals, network, err, result>>

\* C23. Two route_request calls in flight at once, interleaved at their POSTs,
\* are independent: each call's selected backend, downstream request body and
\* outcome are those it would have had alone, each sends its own POSTs (none
\* is shared with an identical call in flight), and a step of one call leaves
\* the other call's state alone.
ConcurrentCallsIndependent ==
    /\ [](/\ AtSuspensionOrEnd(pc) =>
               First = Outcome(AloneRun(request_body, pc, triton_response,
                                        llm_response, err))
          /\ AtSuspensionOrEnd(other.pc) =>
               other = AloneRun(other.request_body, other.pc, other.triton_response,
                                other.llm_response, other.err))
    /\ [][/\ other' # other => FirstVars' = FirstVars
          /\ FirstVars' # FirstVars => other' = other
          /\ config' = config]_vars

\* two identical requests, both classified by their own POST, sent to
\* different backends
ConcurrentCallsIndependentWitness ==
    /\ pc = "DONE"
    /\ other.pc = "DONE"
    /\ request_body = other.request_body
    /\ Len(triton_calls) = 1
    /\ Len(other.triton_calls) = 1
    /\ chosen_llm # other.chosen_llm
    /\ final_body # other.final_body

(***************************************************************************)
(* Termination                                                             *)
(***************************************************************************)

Ended(at) == at \in {"DONE", "FAILED"}

\* a POST of the first call has just raised requests' Timeout
FirstTimesOut ==
    /\ pc \in {"AWAIT_TRITON", "AWAIT_LLM"}
    /\ err' = Exc("Timeout")

\* a POST of the second call has just raised requests' Timeout
OtherTimesOut ==
    /\ other.pc \in {"AWAIT_TRITON", "AWAIT_LLM"}
    /\ other'.err = Exc("Timeout")

\* C24. When every network call returns or times out, every request comes to
\* DONE or FAILED; a timeout of the classifier call or of the backend call
\* ends that request in FAILED with the error, and leaves the other request
\* in flight as it was.
EveryRequestEnds ==
    /\ InFlight ~> Ended(pc)
    /\ (other.pc # "IDLE") ~> Ended(other.pc)
    /\ [][/\ FirstTimesOut => pc' = "FAILED" /\ other' = other
          /\ OtherTimesOut => other'.pc = "FAILED" /\ FirstVars' = FirstVars]_vars
    /\ [](/\ err = Exc("Timeout") => pc = "FAILED"
          /\ other.err = Exc("Timeout") => other.pc = "FAILED")

\* the first call's backend POST timed out while the second call still waits
\* for its backend
EveryRequestEndsWitness ==
    /\ pc = "FAILED"
    /\ err = Exc("Timeout")
    /\ llm_calls # <<>>
    /\ llm_response = Unset
    /\ other.pc = "AWAIT_LLM"
    /\ other.err = NoErr

(***************************************************************************)
(* The downstream call                                                     *)
(***************************************************************************)

\* every backend record of the registry
RegistryBackends ==
    UNION {{config.policies[i].llms[k] : k \in 1..Len(config.policies[i].llms)} :
              i \in 1..Len(config.policies)}

\* the backend records a downstream call could have been built from: those
\* whose endpoint, credential and model are the call's
BackendsOfCall(call) ==
    {b \in RegistryBackends :
        /\ call.url = <<b.api_base, "/v1/chat/completions">>
        /\ call.authorization = <<"Bearer", b.api_key>>
        /\ Has(call.json, "model")
        /\ call.json["model"] = b.model}

\* C25. The downstream call of a request goes to the selected backend and to
\* no other: endpoint, bearer credential and substituted model identifier are
\* those of one backend record, the one at the selected index of the policy
\* the request names.
DownstreamCallToSelectedBackend ==
    llm_calls # <<>> =>
        /\ Len(llm_calls) = 1
        /\ KnownPolicy
        /\ model_index \in 0..(Len(ReqPolicy.llms) - 1)
        /\ chosen_llm = ReqPolicy.llms[model_index + 1]
        /\ BackendsOfCall(llm_calls[1]) = {chosen_llm}
        /\ \A b \in RegistryBackends :
              (b.api_base = llm_calls[1].url[1] \/ b.api_key = llm_calls[1].authorization[2])
                  => b = chosen_llm

\* the classifier selected backend C of policy p, which shares its model
\* identifier with backend A
DownstreamCallToSelectedBackendWitness ==
    /\ pc = "AWAIT_LLM"
    /\ triton_calls # <<>>
    /\ model_index = 2
    /\ llm_calls = <<[url |-> <<"https://api-c", "/v1/chat/completions">>,
                      authorization |-> <<"Bearer", "key-c">>,
                      json |-> final_body,
                      timeout |-> 60]>>
    /\ final_body["model"] = "llama-70b"

(***************************************************************************)
(* The caller's dict                                                       *)
(***************************************************************************)

\* b is a without the keys in gone, every other key with a's value
SameExcept(a, b, gone) ==
    /\ DOMAIN b = DOMAIN a \ gone
    /\ \A k \in DOMAIN b : b[k] = a[k]

\* the request is with the router, and stays with it in the step
StaysInFlight == InFlight /\ pc' # "IDLE"

\* C26. Stripping and rewriting work on copies: the stripped body lacks the
\* routing block and has every other top-level key of the caller's body
\* unchanged, the rewritten body differs from the stripped one in 'model'
\* only, and from its arrival to its outcome (DONE or FAILED) the caller's
\* body is not changed, so it still holds the block and the caller's 'model'.
CallerBodyUntouched ==
    /\ [](/\ InFlight =>
               SameExcept(request_body, remove_nim_llm_router_params(request_body),
                          {NimKey})
          /\ cleaned_body # Unset =>
               /\ SameExcept(request_body, cleaned_body, {NimKey})
               /\ SameExcept(cleaned_body @@ ("model" :> ""),
                             [k \in DOMAIN final_body \ {"model"} |-> final_body[k]],
                             {"model"})
               /\ Has(request_body, NimKey)
          /\ pc = "DONE" => Has(request_body, NimKey))
    /\ [][StaysInFlight => request_body' = request_body]_vars

\* a request came to DONE: its body still has the block and the model the
\* caller wrote, the body sent to the backend has neither
CallerBodyUntouchedWitness ==
    /\ pc = "DONE"
    /\ Has(request_body, NimKey)
    /\ Has(request_body, "model")
    /\ request_body["model"] = "gpt-4"
    /\ Has(request_body, "max_tokens")
    /\ ~Has(final_body, NimKey)
    /\ final_body["model"] # "gpt-4"
    /\ final_body["max_tokens"] = 64

(***************************************************************************)
(* process_educational_query with routing_strategy 'manual'                *)
(***************************************************************************)

\* process_educational_query was called with routing_strategy 'manual'
EduManual == edu_call # NoneRec /\ edu_call.routing_strategy = "manual"

\* C27. process_educational_query takes routing_strategy 'manual', but the
\* directive of the request it builds never has a 'model'; so every such call
\* returns the error result (model_used = 'error'), and no classifier call
\* and no backend call is made for it.
EduManualAlwaysFails ==
    EduManual =>
        /\ ~Has(request_body[NimKey], "model")
        /\ NoNetworkCall
        /\ ~Selected
        /\ pc = "FAILED" => err \in {Exc(NoModelMsg), Exc(PolicyNotFoundMsg)}
        /\ EduReturned =>
             /\ edu_result["model_used"] = "error"
             /\ Has(edu_result, "error")
             /\ edu_result["error"] \in {Exc(NoModelMsg), Exc(PolicyNotFoundMsg)}
             /\ ~Has(edu_result, "classifier_used")

\* a manual call for an existing policy returned the error result for the
\* missing model
EduManualAlwaysFailsWitness ==
    /\ EduManual
    /\ EduReturned
    /\ edu_call.policy = <<"p">>
    /\ edu_result["model_used"] = "error"
    /\ edu_result["error"] = Exc(NoModelMsg)
    /\ triton_calls = <<>>
    /\ llm_calls = <<>>

(***************************************************************************)
(* The study buddy application                                             *)
(***************************************************************************)

\* route_query has returned to thread t
Routed(t) == threads[t].response # NoneRec

\* no API key was configured, or the API request of thread t failed
ApiFailedOrNoKey(t) ==
    \/ threads[t].post = NoneRec
    \/ ~ApiSucceeded(threads[t].api)

\* C28. When the API request of route_query fails or no API key is
\* configured, the StudyResponse is marked as a fallback: model_used is
\* 'fallback', cost is 0 and confidence is 0.5; a response with a configured
\* model name and confidence 0.9 is returned only when the API call succeeded.
FallbackIsMarked ==
    \A t \in ThreadIds :
        Routed(t) =>
            /\ ApiFailedOrNoKey(t) =>
                 /\ threads[t].response.model_used = "fallback"
                 /\ threads[t].response.cost = 0
                 /\ threads[t].response.confidence = 5
            /\ (/\ threads[t].response.model_used \in ConfiguredModels
                /\ threads[t].response.confidence = 9) => ~ApiFailedOrNoKey(t)

\* sum(q['response']['cost'] for q in queries)
RECURSIVE SumCosts(_)
SumCosts(queries) ==
    IF queries = <<>> THEN 0
    ELSE queries[1].response.cost + SumCosts(Tail(queries))

\* no request is being served
AllIdle == \A t \in ThreadIds : threads[t].pc = "IDLE"

NoStats == [queries |-> 0, total_cost |-> 0, session_time |-> "0"]

\* C29. After any sequence of process_study_query calls, for every user the
\* session's total_cost is the sum of the costs of the responses recorded in
\* its query list, get_user_stats reports as many queries as calls were made
\* for the user, and for a user without queries it returns zeros and creates
\* no session.
SessionBookkeeping ==
    /\ [](AllIdle =>
            \A u \in Users :
                /\ Has(user_sessions, u) =>
                     /\ SessionOf(u).total_cost = SumCosts(SessionOf(u).queries)
                     /\ SessionOf(u).total_cost = asked[u].cost
                     /\ Len(SessionOf(u).queries) = asked[u].calls
                /\ get_user_stats(u).queries = asked[u].calls
                /\ get_user_stats(u).total_cost = asked[u].cost
                /\ asked[u].calls = 0 =>
                     /\ get_user_stats(u) = NoStats
                     /\ ~Has(user_sessions, u)
                /\ (stats # NoneRec /\ stats.user_id = u) =>
                     stats.stats.queries <= asked[u].calls)
    /\ [][stats' # stats =>
            /\ stats'.stats = get_user_stats(stats'.user_id)
            /\ user_sessions' = user_sessions
            /\ heap' = heap]_vars

\* user_1 asked two questions of different cost, user_2 none and was given
\* zeros
SessionBookkeepingWitness ==
    /\ AllIdle
    /\ asked["user_1"].calls = 2
    /\ Len(SessionOf("user_1").queries) = 2
    /\ SessionOf("user_1").queries[1].response.cost
           # SessionOf("user_1").queries[2].response.cost
    /\ SessionOf("user_1").total_cost > SessionOf("user_1").queries[2].response.cost
    /\ stats = [user_id |-> "user_2", stats |-> NoStats]
    /\ ~Has(user_sessions, "user_2")

\* C30. When two process_study_query calls for the same user run on two
\* threads at once, interleaving between the session check, the session
\* creation, the append and the total_cost update, nothing is lost: once both
\* have returned, the session holds a record for every call and total_cost is
\* the sum of the costs of all calls.
NoLostUpdate ==
    AllIdle =>
        \A u \in Users :
            asked[u].calls > 0 =>
                /\ Has(user_sessions, u)
                /\ Len(SessionOf(u).queries) = asked[u].calls
                /\ SessionOf(u).total_cost = asked[u].cost

====
